---- MODULE Spec2Model ----
(***************************************************************************)
(* Session orchestration of the voice-coach client: the session page's     *)
(* state machine (pages/session), the browser-side API library (lib/api),  *)
(* and the /api/transcribe and /api/ai-response handlers it talks to.      *)
(*                                                                         *)
(* Scheduling is the browser's: one control thread, handlers run to their  *)
(* next await, and every remote call or device prompt is a suspension that *)
(* completes in a later step.  Texts are sequences of one-character        *)
(* strings so that trim, toLowerCase and includes are computed.            *)
(***************************************************************************)
EXTENDS Integers, Sequences, FiniteSets, TLC

\* ------------------------------------------------------------------ bounds
\* What the user and the environment do at most in one visit of the page.
MaxTurns == 2        \* start-recording clicks and accepted submissions
MaxMicRequests == 2  \* requestMicrophoneAccess calls that reach the device

\* ------------------------------------------------------------------- texts
NoText == << >>
TxtSafe == <<" ", "o", "k", " ">>
TxtCaution == <<"G", "i", "v", "e", " ", "u", "p">>
TxtCrisis == <<"h", "a", "r", "m">>
TxtBlank == <<" ", " ">>
TxtMixed == <<"G", "i", "v", "e", " ", "u", "p", " ", "h", "a", "r", "m">>
TxtShout == <<"K", "i", "l", "l">>
TxtNearMiss == <<"h", "a", "r", " ", "m">>
SttFallbackText == <<"s", "t", "t", "-", "f", "a", "i", "l">>
AiFallbackText == <<"a", "i", "-", "f", "a", "i", "l">>
DefaultReplyText == <<"s", "t", "i", "l", "l", " ", "h", "e", "r", "e">>
ReplyText == <<"r", "e", "p", "l", "y">>

IsSpace(c) == c = " "

RECURSIVE TrimStart(_)
TrimStart(s) ==
  IF s # << >> /\ IsSpace(Head(s)) THEN TrimStart(Tail(s)) ELSE s

RECURSIVE TrimEnd(_)
TrimEnd(s) ==
  IF s # << >> /\ IsSpace(s[Len(s)]) THEN TrimEnd(SubSeq(s, 1, Len(s) - 1)) ELSE s

Trim(s) == TrimEnd(TrimStart(s))

LowerChar(c) ==
  CASE c = "G" -> "g"
    [] c = "H" -> "h"
    [] c = "K" -> "k"
    [] OTHER -> c

ToLowerCase(s) == [i \in 1..Len(s) |-> LowerChar(s[i])]

Includes(s, k) ==
  \E i \in 0..(Len(s) - Len(k)) : SubSeq(s, i + 1, i + Len(k)) = k

\* ------------------------------------------------------- safety classifier
Safe == "safe"
Caution == "caution"
Crisis == "crisis"
SafetyLevels == {Safe, Caution, Crisis}

crisisKeywords ==
  { <<"s", "u", "i", "c", "i", "d", "e">>,
    <<"k", "i", "l", "l", " ", "m", "y", "s", "e", "l", "f">>,
    <<"e", "n", "d", " ", "i", "t", " ", "a", "l", "l">>,
    <<"h", "u", "r", "t", " ", "m", "y", "s", "e", "l", "f">>,
    <<"h", "a", "r", "m">>,
    <<"k", "i", "l", "l">> }

cautionKeywords ==
  { <<"h", "o", "p", "e", "l", "e", "s", "s">>,
    <<"h", "e", "l", "p", "l", "e", "s", "s">>,
    <<"n", "o", " ", "h", "o", "p", "e">>,
    <<"c", "a", "n", "'", "t", " ", "c", "o", "n", "t", "i", "n", "u", "e">>,
    <<"g", "i", "v", "e", " ", "u", "p">> }

\* A classifier that looks for the caution keywords first.
detectSafetyLevelCautionFirst(message) ==
  LET lowerMessage == ToLowerCase(message) IN
  IF \E keyword \in cautionKeywords : Includes(lowerMessage, keyword) THEN Caution
  ELSE IF \E keyword \in crisisKeywords : Includes(lowerMessage, keyword) THEN Crisis
  ELSE Safe

detectSafetyLevel(message) ==
  LET lowerMessage == ToLowerCase(message) IN
  IF \E keyword \in crisisKeywords : Includes(lowerMessage, keyword) THEN Crisis
  ELSE IF \E keyword \in cautionKeywords : Includes(lowerMessage, keyword) THEN Caution
  ELSE Safe

\* ------------------------------------------------ /api/transcribe handler
\* A client library that hands on whatever the route sent, without a fallback.
transcribeAudioNoFallback(res) == res.transcript

\* What the speech-to-text collaborator did with the audio.
SttHttpError == [kind |-> "http", text |-> NoText]
SttThrows == [kind |-> "throw", text |-> NoText]
SttText(t) == [kind |-> "ok", text |-> t]
VoiceTexts == {NoText, TxtBlank, TxtSafe, TxtCrisis}
SttOutcomes == {SttHttpError, SttThrows} \cup {SttText(t) : t \in VoiceTexts}
SttFailures == {SttHttpError, SttThrows}

transcribeHandler(stt) ==
  IF stt.kind = "throw" THEN [status |-> 500, transcript |-> NoText]
  ELSE IF stt.kind # "ok" THEN [status |-> 500, transcript |-> NoText]
  ELSE IF stt.text = NoText THEN [status |-> 500, transcript |-> NoText]
  ELSE [status |-> 200, transcript |-> stt.text]

transcribeAudio(res) ==
  IF res.status # 200 THEN SttFallbackText ELSE res.transcript

\* ----------------------------------------------- /api/ai-response handler
MAX_REFERENCES == 3

NoMicroActions == [present |-> FALSE, list |-> << >>]
MicroActions(l) == [present |-> TRUE, list |-> l]
NoMusicRequest ==
  [present |-> FALSE, shouldPlay |-> FALSE, searchQuery |-> NoText,
   youtubeVideoId |-> NoText, musicType |-> NoText]
MusicRequest(play, query, video, type) ==
  [present |-> TRUE, shouldPlay |-> play, searchQuery |-> query,
   youtubeVideoId |-> video, musicType |-> type]

DigitChar(n) == <<"0", "1", "2", "3", "4", "5", "6", "7", "8", "9">>[n + 1]

RECURSIVE NumberToString(_)
NumberToString(n) ==
  IF n < 10 THEN <<DigitChar(n)>> ELSE NumberToString(n \div 10) \o <<DigitChar(n % 10)>>

LlmId(index) == <<"l", "l", "m", "-">> \o NumberToString(index + 1)

normalizeMicroActions(parsed) ==
  IF ~parsed.microActions.present THEN NoMicroActions
  ELSE MicroActions([i \in 1..Len(parsed.microActions.list) |->
         LET m == parsed.microActions.list[i] IN
         [id |-> IF m.id # NoText THEN m.id ELSE LlmId(i - 1), title |-> m.title]])

\* A handler that hands on whatever level the model wrote.
coerceSafetyLevelKeepsAny(level) == level

coerceSafetyLevel(level) ==
  IF level = Caution \/ level = Crisis THEN level ELSE Safe

\* A lookup that hands on every result it was given.
fetchPsychologyReferencesUncapped(query, search) ==
  IF Trim(query) = NoText THEN << >>
  ELSE IF search.kind # "ok" THEN << >>
  ELSE search.results

fetchPsychologyReferences(query, search) ==
  IF Trim(query) = NoText THEN << >>
  ELSE IF search.kind # "ok" THEN << >>
  ELSE SubSeq(search.results, 1, IF Len(search.results) < MAX_REFERENCES
                                 THEN Len(search.results) ELSE MAX_REFERENCES)

ErrorBody ==
  [message |-> NoText, safetyLevel |-> Safe, microActions |-> NoMicroActions,
   musicRequest |-> NoMusicRequest, references |-> << >>]

\* parseError is set only on the path that returns before logging.
NoParseError == NoText

\* A route that writes a record holding the parse error before it answers 500.
handlerLogsParseError(req, search, llm) ==
  IF req.userMessage = NoText
  THEN [status |-> 400, body |-> ErrorBody, logged |-> << >>, sent |-> FALSE]
  ELSE
    LET references == fetchPsychologyReferences(req.userMessage, search)
        parsed == llm.parsed
        aiResponse ==
          [message |-> IF parsed.message # NoText THEN parsed.message ELSE DefaultReplyText,
           safetyLevel |-> coerceSafetyLevel(parsed.safetyLevel),
           microActions |-> normalizeMicroActions(parsed),
           musicRequest |-> parsed.musicRequest,
           references |-> references]
        record(error) ==
          [sessionId |-> req.sessionId, type |-> req.interactionType,
           userMessage |-> req.userMessage, message |-> aiResponse.message,
           safetyLevel |-> aiResponse.safetyLevel, error |-> error]
    IN IF llm.kind \in {"http", "throw", "empty"}
       THEN [status |-> 500, body |-> ErrorBody, logged |-> << >>, sent |-> TRUE]
       ELSE IF llm.kind = "badjson"
       THEN [status |-> 500, body |-> ErrorBody, logged |-> << record(<<"e">>) >>, sent |-> TRUE]
       ELSE [status |-> 200, body |-> aiResponse, logged |-> << record(NoParseError) >>,
             sent |-> TRUE]

\* The handler's result: the HTTP status, the body, the records it logged, and
\* whether the request to the model was built and sent.
handler(req, search, llm) ==
  IF req.userMessage = NoText
  THEN [status |-> 400, body |-> ErrorBody, logged |-> << >>, sent |-> FALSE]
  ELSE
    LET references == fetchPsychologyReferences(req.userMessage, search) IN
    IF llm.kind \in {"http", "throw", "empty", "badjson"}
    THEN [status |-> 500, body |-> ErrorBody, logged |-> << >>, sent |-> TRUE]
    ELSE
      LET parsed == llm.parsed
          aiResponse ==
            [message |-> IF parsed.message # NoText THEN parsed.message ELSE DefaultReplyText,
             safetyLevel |-> coerceSafetyLevel(parsed.safetyLevel),
             microActions |-> normalizeMicroActions(parsed),
             musicRequest |-> parsed.musicRequest,
             references |-> references]
      IN [status |-> 200, body |-> aiResponse,
          logged |-> << [sessionId |-> req.sessionId, type |-> req.interactionType,
                         userMessage |-> req.userMessage,
                         message |-> aiResponse.message,
                         safetyLevel |-> aiResponse.safetyLevel,
                         error |-> NoParseError] >>,
          sent |-> TRUE]

\* A route that fails the request when the log line cannot be written.
respondAfterLogFailing(res, disk) ==
  IF disk # "ok" /\ res.logged # << >> THEN [res EXCEPT !.status = 500] ELSE res

\* What the route sends once logConversation was called: the call is not awaited
\* and catches its own error, so the response does not depend on the disk.
respondAfterLog(res, disk) == res

\* A client library that hands on the body of whatever the route sent.
getAIResponseNoFallback(res, delivered) == res.body

FallbackResponse ==
  [message |-> AiFallbackText, safetyLevel |-> Safe,
   microActions |-> MicroActions(<< [id |-> <<"f", "a", "l", "l", "b", "a", "c", "k", "-", "1">>,
                                     title |-> <<"b", "r", "e", "a", "t", "h", "e">>] >>),
   musicRequest |-> NoMusicRequest, references |-> << >>]

\* getAIResponse after the fetch settled: delivered is FALSE when fetch rejected.
getAIResponse(res, delivered) ==
  IF ~delivered THEN FallbackResponse
  ELSE IF res.status # 200 THEN FallbackResponse
  ELSE res.body

\* ------------------------------------------------------------ lib/logger
\* logs/conversations.jsonl as a sequence of tokens: the JSON text of a record,
\* or a line break.
NewLine == [kind |-> "newline"]
JsonStringify(log) == [kind |-> "json", value |-> log]
DiskOutcomes == {"ok", "fails"}

\* A store that keeps only the latest record.
logConversationOverwrite(content, log, disk) ==
  IF disk # "ok" THEN content ELSE <<JsonStringify(log), NewLine>>

\* logConversation: appendFileSync of one line; an error is caught and reported.
logConversation(content, log, disk) ==
  IF disk # "ok" THEN content ELSE content \o <<JsonStringify(log), NewLine>>

RECURSIVE SplitLines(_)
SplitLines(content) ==
  IF content = << >> THEN << << >> >>
  ELSE LET rest == SplitLines(Tail(content)) IN
       IF Head(content) = NewLine THEN << << >> >> \o rest
       ELSE << <<Head(content)>> \o Head(rest) >> \o Tail(rest)

\* JSON.parse of one line succeeds when the line is the text of one record.
Parses(line) == Len(line) = 1

\* readConversationLogs: split, drop blank lines, parse; any error yields [].
readConversationLogs(content) ==
  LET lines == SelectSeq(SplitLines(content), LAMBDA line : line # << >>) IN
  IF \E i \in 1..Len(lines) : ~Parses(lines[i]) THEN << >>
  ELSE [i \in 1..Len(lines) |-> lines[i][1].value]

getSessionLogs(content, sessionId) ==
  SelectSeq(readConversationLogs(content), LAMBDA log : log.sessionId = sessionId)

\* Where the module runs: fs and path are loaded only where there is no window.
Runtimes == {"server", "client"}
\* How the file system answers a read of the log file.
FsReadOutcomes == {"ok", "missing", "throws"}

logConversationIn(runtime, content, log, disk) ==
  IF runtime # "server" THEN content ELSE logConversation(content, log, disk)

readConversationLogsIn(runtime, fsRead, content) ==
  IF runtime # "server" THEN << >>
  ELSE IF fsRead = "missing" THEN << >>
  ELSE IF fsRead = "throws" THEN << >>
  ELSE readConversationLogs(content)

getSessionLogsIn(runtime, fsRead, content, sessionId) ==
  SelectSeq(readConversationLogsIn(runtime, fsRead, content),
            LAMBDA log : log.sessionId = sessionId)

\* Property names every object literal inherits from Object.prototype; the value
\* found under them is truthy and has no push method.
KeyConstructor == <<"c", "o", "n", "s", "t", "r", "u", "c", "t", "o", "r">>
KeyProto == <<"_", "_", "p", "r", "o", "t", "o", "_", "_">>
ObjectPrototypeKeys == {KeyConstructor, KeyProto}

NoGroups == [key \in {} |-> << >>]

\* The loop of getLogsBySession over allLogs; grouped holds the own properties.
\* threw: grouped[log.sessionId].push raised a TypeError out of the function.
RECURSIVE groupLogs(_, _)
groupLogs(grouped, logs) ==
  IF logs = << >> THEN [threw |-> FALSE, grouped |-> grouped]
  ELSE LET log == Head(logs)
           key == log.sessionId
           created == IF key \in DOMAIN grouped \/ key \in ObjectPrototypeKeys
                      THEN grouped
                      ELSE grouped @@ (key :> << >>)
       IN IF key \notin DOMAIN created
          THEN [threw |-> TRUE, grouped |-> created]
          ELSE groupLogs([created EXCEPT ![key] = Append(@, log)], Tail(logs))

getLogsBySessionIn(runtime, fsRead, content) ==
  groupLogs(NoGroups, readConversationLogsIn(runtime, fsRead, content))

getLogsBySession(content) == getLogsBySessionIn("server", "ok", content)

\* ------------------------------------------------ /api/youtube-search handler
DefaultVideoId == <<"j", "f", "K">>
Query == <<"r", "a", "i", "n">>
VideoId == <<"v", "1">>
FoundVideoId == <<"v", "2">>
Calm == <<"c", "a", "l", "m">>
MusicTitle == <<"M", "u", "s", "i", "c">>

\* yt: what the video search collaborator did ("noKey": no credential configured).
youtubeSearchHandler(query, yt) ==
  IF query = NoText THEN [status |-> 400, videoId |-> NoText]
  ELSE IF yt.kind \in {"noKey", "http", "noItems", "throw"}
  THEN [status |-> 200, videoId |-> DefaultVideoId]
  ELSE [status |-> 200, videoId |-> yt.videoId]

YtOutcomes ==
  {[kind |-> k, videoId |-> NoText] : k \in {"noKey", "http", "noItems", "throw"}}
    \cup {[kind |-> "item", videoId |-> FoundVideoId]}

\* How a fetch of one of the app's own routes settles: the handler's response is
\* delivered, an intermediary answers with a non-success status, or fetch rejects.
NetOutcomes == {"delivered", "status", "rejected"}

\* ------------------------------------------------------------------ inputs
TypedTexts == {TxtBlank, TxtSafe, TxtCaution, TxtCrisis}

Title1 == <<"w", "a", "l", "k">>
Title2 == <<"n", "a", "p">>
GivenId == <<"a", "1">>

BaseParsed ==
  [message |-> ReplyText, safetyLevel |-> Safe, microActions |-> NoMicroActions,
   musicRequest |-> NoMusicRequest]

ParsedLevels == {Safe, Caution, Crisis, "CRISIS", ""}

ParsedMicroActions ==
  { NoMicroActions, MicroActions(<< >>),
    MicroActions(<< [id |-> NoText, title |-> Title1], [id |-> GivenId, title |-> Title2] >>) }

ParsedMusicRequests ==
  { NoMusicRequest,
    MusicRequest(TRUE, Query, NoText, Calm),
    MusicRequest(TRUE, NoText, VideoId, NoText),
    MusicRequest(TRUE, NoText, NoText, Calm),
    MusicRequest(FALSE, Query, NoText, Calm) }

ParsedSamples ==
  {[BaseParsed EXCEPT !.safetyLevel = l] : l \in ParsedLevels}
    \cup {[BaseParsed EXCEPT !.microActions = m] : m \in ParsedMicroActions}
    \cup {[BaseParsed EXCEPT !.musicRequest = r] : r \in ParsedMusicRequests}
    \cup {[BaseParsed EXCEPT !.message = m] : m \in {NoText, TxtBlank}}

LlmFailureKinds == {"http", "throw", "empty", "badjson"}

LlmOutcomes ==
  {[kind |-> k, parsed |-> BaseParsed] : k \in LlmFailureKinds}
    \cup {[kind |-> "json", parsed |-> p] : p \in ParsedSamples}

Ref(n) == <<"r", "e", "f">> \o NumberToString(n)
SearchFails == [kind |-> "fail", results |-> << >>]
SearchThrows == [kind |-> "throw", results |-> << >>]
SearchFinds(n) == [kind |-> "ok", results |-> [i \in 1..n |-> Ref(i)]]
SearchOutcomes == {SearchFails, SearchFinds(MAX_REFERENCES + 1)}

\* One settled /api/ai-response call: the reference search, the model call and
\* how the route's answer travelled back.
AiOutcomes ==
  {[search |-> SearchFails, llm |-> l, net |-> "delivered"] : l \in LlmOutcomes}
    \cup {[search |-> s, llm |-> [kind |-> "json", parsed |-> BaseParsed], net |-> n] :
            s \in SearchOutcomes, n \in NetOutcomes}

MicOutcomes ==
  {"granted", "noTracks", "denied", "NotAllowedError", "NotFoundError",
   "NotReadableError", "OverconstrainedError", "UnknownError"}
MicRetryOutcomes == {"granted", "failed"}
RecorderOutcomes == {"ok", "ctorThrows", "startNotSupported", "startThrows"}
TtsOutcomes == {"ok", "status", "rejected", "playRejected"}
Browsers == {"full", "insecure", "noMediaDevices", "noMediaRecorder"}

SessionId == <<"s", "1">>
NoError == "none"
NoStream == 0
NoRecorder == 0
NoAudio == 0
NoResponse == ErrorBody

\* ------------------------------------------------------------------- state
VARIABLES
  browser,             \* the runtime's capabilities, fixed for the visit
  mountTimer,          \* the 100 ms timer of the mount effect is pending
  sessionState, messages, safetyLevel, showSafetyBanner, currentMicroActions,
  musicPlayers, micReady, micError,
  streamRef,           \* streamRef.current: a stream id or NoStream
  mediaRecorderRef,    \* mediaRecorderRef.current: a recorder id or NoRecorder
  recorders,           \* recorders in state "recording"
  micCalls,            \* requestMicrophoneAccess calls suspended in getUserMedia
  streams,             \* acquired capture streams whose tracks are live
  mounted,             \* the session page is mounted
  turns,               \* turns suspended in a remote call
  ttsCalls,            \* playAssistantVoice calls suspended in fetch('/api/tts')
  currentAudio,        \* lib/api's module-level currentAudio
  playing,             \* Audio elements that are playing
  rejecting,           \* Audio elements whose play() promise is about to reject
  musicCalls,          \* handleMusicRequest calls suspended in the search fetch
  logStore,            \* the content of logs/conversations.jsonl
  nStarted, nMicCalls, \* turns and microphone requests started so far
  lastOp               \* the handler or event that ran last

session == <<sessionState, messages, safetyLevel, showSafetyBanner,
             currentMicroActions, musicPlayers>>
mic == <<micReady, micError, streamRef, micCalls, nMicCalls, streams>>
recording == <<mediaRecorderRef, recorders>>
voice == <<ttsCalls, currentAudio, playing, rejecting>>
music == <<musicPlayers, musicCalls>>
vars == <<browser, mountTimer, sessionState, messages, safetyLevel, showSafetyBanner,
          currentMicroActions, musicPlayers, micReady, micError, streamRef,
          mediaRecorderRef, recorders, micCalls, turns, ttsCalls, currentAudio,
          playing, musicCalls, logStore, nStarted, nMicCalls, lastOp, streams, mounted,
          rejecting>>

Init ==
  /\ browser \in Browsers
  /\ mountTimer = TRUE
  /\ sessionState = "idle"
  /\ messages = << >>
  /\ safetyLevel = Safe
  /\ showSafetyBanner = FALSE
  /\ currentMicroActions = << >>
  /\ musicPlayers = << >>
  /\ micReady = FALSE
  /\ micError = NoError
  /\ streamRef = NoStream
  /\ mediaRecorderRef = NoRecorder
  /\ recorders = {}
  /\ micCalls = {}
  /\ streams = {}
  /\ mounted = TRUE
  /\ turns = {}
  /\ ttsCalls = {}
  /\ currentAudio = NoAudio
  /\ playing = {}
  /\ rejecting = {}
  /\ musicCalls = {}
  /\ logStore = << >>
  /\ nStarted = 0
  /\ nMicCalls = 0
  /\ lastOp = "init"

\* ---------------------------------------------------- voice playback (lib/api)
\* stopAssistantVoice: pause and drop the element currentAudio refers to.
stopAssistantVoice(cur, pl) ==
  IF cur # NoAudio THEN [currentAudio |-> NoAudio, playing |-> pl \ {cur}]
  ELSE [currentAudio |-> cur, playing |-> pl]

\* A library that stops the current playback before it looks at the text.
playAssistantVoiceStopsFirst(text, a) ==
  LET stopped == stopAssistantVoice(currentAudio, playing) IN
  /\ currentAudio' = stopped.currentAudio
  /\ playing' = stopped.playing
  /\ ttsCalls' = IF text = NoText \/ Trim(text) = NoText THEN ttsCalls ELSE ttsCalls \cup {a}
  /\ UNCHANGED rejecting

\* playAssistantVoice up to its await of fetch('/api/tts').
\* The Audio element a call creates is named after the turn that made the call.
playAssistantVoice(text, a) ==
  IF text = NoText \/ Trim(text) = NoText THEN UNCHANGED voice
  ELSE LET stopped == stopAssistantVoice(currentAudio, playing) IN
       /\ currentAudio' = stopped.currentAudio
       /\ playing' = stopped.playing
       /\ ttsCalls' = ttsCalls \cup {a}
       /\ UNCHANGED rejecting

\* A library that builds and plays an Audio element from whatever /api/tts sent.
createAudioUnchecked(a, out, cur, pl, rej) ==
  IF out = "rejected" THEN [currentAudio |-> cur, playing |-> pl, rejecting |-> rej]
  ELSE [currentAudio |-> a, playing |-> pl \cup {a}, rejecting |-> rej]

\* playAssistantVoice from the answer of fetch('/api/tts') on: nothing on a
\* non-success status or a thrown error; else the Audio element is created,
\* becomes currentAudio and play() is called, which starts it or will reject.
createAudio(a, out, cur, pl, rej) ==
  CASE out = "ok" -> [currentAudio |-> a, playing |-> pl \cup {a}, rejecting |-> rej]
    [] out = "playRejected" -> [currentAudio |-> a, playing |-> pl, rejecting |-> rej \cup {a}]
    [] OTHER -> [currentAudio |-> cur, playing |-> pl, rejecting |-> rej]

\* A listener that clears the reference whatever it refers to.
clearAlways(cur, a) == NoAudio

\* What the ended, error and play-rejection listeners of element a do to
\* currentAudio.
clearIfCurrent(cur, a) == IF cur = a THEN NoAudio ELSE cur

\* fetch('/api/tts') settles.
TtsSettles(a, out) ==
  /\ a \in ttsCalls
  /\ ttsCalls' = ttsCalls \ {a}
  /\ LET made == createAudio(a, out, currentAudio, playing, rejecting) IN
       /\ currentAudio' = made.currentAudio
       /\ playing' = made.playing
       /\ rejecting' = made.rejecting
  /\ lastOp' = "TtsSettles"
  /\ UNCHANGED <<mounted, browser, mountTimer, session, mic, recording, turns, musicCalls,
                 logStore, nStarted>>

\* The 'ended' or 'error' event of a playing Audio element.
AudioEnds(a) ==
  /\ a \in playing
  /\ playing' = playing \ {a}
  /\ currentAudio' = clearIfCurrent(currentAudio, a)
  /\ lastOp' = "AudioEnds"
  /\ UNCHANGED <<mounted, browser, mountTimer, session, mic, recording, turns, ttsCalls,
                 rejecting, musicCalls, logStore, nStarted>>

\* The play() promise of an Audio element rejects.
PlayRejected(a) ==
  /\ a \in rejecting
  /\ rejecting' = rejecting \ {a}
  /\ currentAudio' = clearIfCurrent(currentAudio, a)
  /\ lastOp' = "PlayRejected"
  /\ UNCHANGED <<mounted, browser, mountTimer, session, mic, recording, turns, ttsCalls,
                 playing, musicCalls, logStore, nStarted>>

\* ------------------------------------------------ microphone (session page)
MicPrecheck ==
  IF browser = "insecure" THEN "insecure"
  ELSE IF browser = "noMediaDevices" THEN "unsupported"
  ELSE "ok"

MicErrorOf(out) ==
  CASE out = "denied" -> "permissionDenied"
    [] out = "NotAllowedError" -> "notAllowed"
    [] out = "NotFoundError" -> "notFound"
    [] out = "NotReadableError" -> "busy"
    [] OTHER -> "unknown"

\* requestMicrophoneAccess up to its first await; err is micError at the call.
requestMicrophoneAccess(caller, turn, err) ==
  IF MicPrecheck # "ok"
  THEN /\ micError' = MicPrecheck
       /\ micReady' = FALSE
       /\ UNCHANGED <<streamRef, micCalls, nMicCalls>>
  ELSE /\ nMicCalls' = nMicCalls + 1
       /\ micCalls' = micCalls \cup
            {[id |-> nMicCalls + 1, caller |-> caller, turn |-> turn, stage |-> 1]}
       /\ micError' = err
       /\ UNCHANGED <<micReady, streamRef>>

\* The mount effect's timer: request the microphone when the page opens.
MountTimerFires ==
  /\ mountTimer
  /\ mountTimer' = FALSE
  /\ requestMicrophoneAccess("mount", 0, micError)
  /\ UNCHANGED streams
  /\ lastOp' = "MountTimerFires"
  /\ UNCHANGED <<mounted, browser, session, recording, turns, voice, musicCalls, logStore,
                 nStarted>>

\* The Retry button of the microphone error banner.
RetryMicrophone ==
  /\ micError # NoError
  /\ requestMicrophoneAccess("retry", 0, NoError)
  /\ UNCHANGED streams
  /\ lastOp' = "RetryMicrophone"
  /\ UNCHANGED <<mounted, browser, mountTimer, session, recording, turns, voice, musicCalls,
                 logStore, nStarted>>

\* handleStartRecording from the construction of the MediaRecorder on.
CreateRecorder(rid, err, out) ==
  IF browser = "noMediaRecorder"
  THEN /\ micError' = "noMediaRecorder"
       /\ sessionState' = "idle"
       /\ UNCHANGED recording
  ELSE   /\ micError' = CASE out = "ok" -> err
                          [] out = "ctorThrows" -> "recorderFormat"
                          [] out = "startNotSupported" -> "recordingNotSupported"
                          [] OTHER -> "startFailed"
         /\ sessionState' = IF out = "ok" THEN "recording" ELSE "idle"
         /\ mediaRecorderRef' = IF out = "ctorThrows" THEN mediaRecorderRef ELSE rid
         /\ recorders' = IF out = "ok" THEN recorders \cup {rid} ELSE recorders

\* MicButton.handleClick while idle: handleStartRecording up to its first await
\* (or to its end when the microphone is ready).
StartRecording(rec) ==
  /\ sessionState = "idle"
  /\ nStarted' = nStarted + 1
  /\ LET stopped == stopAssistantVoice(currentAudio, playing) IN
       /\ currentAudio' = stopped.currentAudio
       /\ playing' = stopped.playing
  /\ IF browser = "noMediaDevices"
     THEN /\ micError' = "unsupportedBrowser"
          /\ sessionState' = "idle"
          /\ UNCHANGED <<micReady, streamRef, micCalls, nMicCalls, recording>>
     ELSE IF ~micReady \/ streamRef = NoStream
     THEN /\ requestMicrophoneAccess("start", nStarted + 1, micError)
          /\ sessionState' = "idle"
          /\ UNCHANGED recording
     ELSE /\ CreateRecorder(nStarted + 1, micError, rec)
          /\ UNCHANGED <<micReady, streamRef, micCalls, nMicCalls>>
  /\ UNCHANGED streams
  /\ lastOp' = "StartRecording"
  /\ UNCHANGED <<mounted, browser, mountTimer, messages, safetyLevel, showSafetyBanner,
                 currentMicroActions, music, turns, ttsCalls, rejecting, logStore>>

\* A page that asks the device again after any failure.
RetriesAfterAnyFailure(out) == out # "granted"

\* The one error name after which getUserMedia is called again, with { audio: true }.
RetriesWithDefaults(out) == out = "OverconstrainedError"

\* A suspended requestMicrophoneAccess resumes; a call made by
\* handleStartRecording then runs that handler to its end.
MicSettles(c, out, rec) ==
  /\ c \in micCalls
  /\ out \in (IF c.stage = 1 THEN MicOutcomes ELSE MicRetryOutcomes)
  /\ IF RetriesWithDefaults(out)
     THEN \* retried once with { audio: true }
          /\ micCalls' = (micCalls \ {c}) \cup {[c EXCEPT !.stage = 2]}
          /\ micReady' = FALSE
          /\ UNCHANGED <<micError, streamRef, streams, sessionState, recording>>
     ELSE /\ micCalls' = micCalls \ {c}
          /\ IF out = "granted"
             THEN /\ streamRef' = c.id
                  /\ streams' = streams \cup {c.id}
                  /\ micReady' = TRUE
                  /\ IF c.caller = "start"
                     THEN CreateRecorder(c.turn, NoError, rec)
                     ELSE micError' = NoError /\ UNCHANGED <<sessionState, recording>>
             ELSE /\ micError' = IF c.stage = 2 THEN "defaultFailed" ELSE MicErrorOf(out)
                  /\ micReady' = IF c.stage = 2 THEN micReady ELSE FALSE
                  /\ sessionState' = IF c.caller = "start" THEN "idle" ELSE sessionState
                  /\ UNCHANGED <<streamRef, streams, recording>>
  /\ lastOp' = "MicSettles"
  /\ UNCHANGED <<nMicCalls, mounted, browser, mountTimer, messages, safetyLevel, showSafetyBanner,
                 currentMicroActions, music, turns, voice, logStore, nStarted>>

\* The mount effect's cleanup when the page is left: the timer is cleared and
\* the tracks of the stream streamRef refers to are stopped.
Teardown ==
  /\ mounted
  /\ mounted' = FALSE
  /\ mountTimer' = FALSE
  /\ streams' = IF streamRef # NoStream THEN streams \ {streamRef} ELSE streams
  /\ streamRef' = NoStream
  /\ lastOp' = "Teardown"
  /\ UNCHANGED <<browser, session, micReady, micError, micCalls, nMicCalls, recording,
                 turns, voice, musicCalls, logStore, nStarted>>

\* ------------------------------------------------------ turns (session page)
UserMessage(id, content) ==
  [id |-> id, role |-> "user", content |-> content, references |-> << >>]
AssistantMessage(id, ai) ==
  [id |-> id, role |-> "assistant", content |-> ai.message, references |-> ai.references]

\* A page that awaits the classifier before it sends the AI request.
TurnSafetyAwaitedFirst(id, kind, pc, text) ==
  [id |-> id, kind |-> kind, pc |-> pc, text |-> text,
   safetyDone |-> TRUE, aiDone |-> FALSE, ai |-> NoResponse]

Turn(id, kind, pc, text) ==
  [id |-> id, kind |-> kind, pc |-> pc, text |-> text,
   safetyDone |-> FALSE, aiDone |-> FALSE, ai |-> NoResponse]

ClickedMarker(title) == <<"[", "c", "l", "i", "c", "k", ":">> \o title \o <<"]">>
buildMicroActionMessage(action) == <<"a", "c", "t", "i", "o", "n", ":">> \o action.title

\* handleStopRecording, and the recorder's onstop handing the audio to processAudio.
\* stop() on a recorder that is not recording throws out of the click handler.
StopRecording ==
  /\ sessionState = "recording"
  /\ IF mediaRecorderRef # NoRecorder /\ mediaRecorderRef \in recorders
     THEN /\ recorders' = recorders \ {mediaRecorderRef}
          /\ sessionState' = "processing"
          /\ turns' = turns \cup {Turn(mediaRecorderRef, "voice", "transcribing", NoText)}
          /\ lastOp' = "StopRecording"
     ELSE /\ UNCHANGED <<recorders, sessionState, turns>>
          /\ lastOp' = "StopRecordingNoEffect"
  /\ UNCHANGED <<mounted, browser, mountTimer, messages, safetyLevel, showSafetyBanner,
                 currentMicroActions, music, mic, mediaRecorderRef, voice, logStore,
                 nStarted>>

\* A page whose stop handler looks at the recorder only, not at the state.
handleStopRecordingAnyState ==
  /\ IF mediaRecorderRef # NoRecorder /\ mediaRecorderRef \in recorders
     THEN /\ recorders' = recorders \ {mediaRecorderRef}
          /\ sessionState' = "processing"
          /\ turns' = turns \cup {Turn(mediaRecorderRef, "voice", "transcribing", NoText)}
          /\ lastOp' = "StopRecording"
     ELSE /\ UNCHANGED <<recorders, sessionState, turns>>
          /\ lastOp' = "StopRecordingNoEffect"
  /\ UNCHANGED <<mounted, browser, mountTimer, messages, safetyLevel, showSafetyBanner,
                 currentMicroActions, music, mic, mediaRecorderRef, voice, logStore,
                 nStarted>>

\* handleStopRecording called in any state: outside recording its guard fails
\* and nothing happens.
handleStopRecording ==
  IF sessionState = "recording"
  THEN StopRecording
  ELSE /\ lastOp' = "StopRecordingNoEffect"
       /\ UNCHANGED <<mounted, browser, mountTimer, session, mic, recording, turns, voice,
                      musicCalls, logStore, nStarted>>

\* processUserText up to its await of Promise.all; rest are the other suspended turns.
processUserText(id, kind, text, rest) ==
  LET trimmed == Trim(text) IN
  IF trimmed = NoText
  THEN /\ turns' = rest
       /\ UNCHANGED <<messages, sessionState>>
  ELSE /\ messages' = Append(messages, UserMessage(Len(messages) + 1, trimmed))
       /\ sessionState' = "responding"
       /\ turns' = rest \cup {Turn(id, kind, "awaiting", trimmed)}

\* processAudio resumes with the transcript (transcribeAudio never rejects).
TranscribeSettles(t, stt, net) ==
  /\ t \in turns /\ t.pc = "transcribing"
  /\ LET res == IF net = "delivered" THEN transcribeHandler(stt)
                ELSE [status |-> 502, transcript |-> NoText]
         transcript == transcribeAudio(res)
     IN processUserText(t.id, "voice", transcript, turns \ {t})
  /\ lastOp' = "TranscribeSettles"
  /\ UNCHANGED <<mounted, browser, mountTimer, safetyLevel, showSafetyBanner,
                 currentMicroActions, music, mic, recording, voice, logStore, nStarted>>

\* A page whose input handlers carry no guard.
NeverBusy == FALSE

\* The guard handleSubmitTypedMessage and handleMicroActionClick open with.
Busy == sessionState # "idle"

\* handleSubmitTypedMessage.
SubmitTypedMessage(text) ==
  IF Busy
  THEN /\ lastOp' = "SubmitTypedIgnored"
       /\ UNCHANGED <<mounted, browser, mountTimer, session, mic, recording, turns, voice,
                      musicCalls, logStore, nStarted>>
  ELSE IF Trim(text) = NoText
  THEN /\ lastOp' = "SubmitTypedEmpty"
       /\ UNCHANGED <<mounted, browser, mountTimer, session, mic, recording, turns, voice,
                      musicCalls, logStore, nStarted>>
  ELSE /\ nStarted' = nStarted + 1
       /\ processUserText(nStarted + 1, "typed", Trim(text), turns)
       /\ lastOp' = "SubmitTypedMessage"
       /\ UNCHANGED <<mounted, browser, mountTimer, safetyLevel, showSafetyBanner,
                      currentMicroActions, music, mic, recording, voice, logStore>>

\* handleMicroActionClick up to its await of getAIResponse.
ClickMicroAction(i) ==
  /\ messages # << >>
  /\ i \in 1..Len(currentMicroActions)
  /\ IF Busy
     THEN /\ lastOp' = "MicroActionIgnored"
          /\ UNCHANGED <<sessionState, turns, nStarted>>
     ELSE /\ nStarted' = nStarted + 1
          /\ sessionState' = "responding"
          /\ turns' = turns \cup
               {Turn(nStarted + 1, "micro", "awaiting", currentMicroActions[i].title)}
          /\ lastOp' = "ClickMicroAction"
  /\ UNCHANGED <<mounted, browser, mountTimer, messages, safetyLevel, showSafetyBanner,
                 currentMicroActions, music, mic, recording, voice, logStore>>

\* A page that tags the player with the message before the assistant's.
handleMusicRequestStaleTrigger(musicRequest, triggerMessageId) ==
  IF musicRequest.searchQuery = NoText /\ musicRequest.youtubeVideoId = NoText
  THEN UNCHANGED music
  ELSE /\ musicCalls' = musicCalls \cup
            {[triggerMessageId |-> triggerMessageId - 1, query |-> musicRequest.searchQuery,
              title |-> MusicTitle]}
       /\ UNCHANGED <<musicPlayers>>

\* A page that searches whenever there is a query, whether or not the request
\* names a video.
handleMusicRequestSearchFirst(musicRequest, triggerMessageId) ==
  IF musicRequest.searchQuery = NoText /\ musicRequest.youtubeVideoId = NoText
  THEN UNCHANGED music
  ELSE IF musicRequest.searchQuery = NoText
  THEN /\ musicPlayers' = Append(musicPlayers,
            [id |-> triggerMessageId, triggerMessageId |-> triggerMessageId,
             videoId |-> musicRequest.youtubeVideoId,
             title |-> IF musicRequest.musicType # NoText
                       THEN musicRequest.musicType ELSE MusicTitle])
       /\ UNCHANGED musicCalls
  ELSE /\ musicCalls' = musicCalls \cup
            {[triggerMessageId |-> triggerMessageId, query |-> musicRequest.searchQuery,
              title |-> IF musicRequest.musicType # NoText
                        THEN musicRequest.musicType ELSE MusicTitle]}
       /\ UNCHANGED <<musicPlayers>>

\* handleMusicRequest up to its await of the search fetch.
handleMusicRequest(musicRequest, triggerMessageId) ==
  IF musicRequest.searchQuery = NoText /\ musicRequest.youtubeVideoId = NoText
  THEN UNCHANGED music
  ELSE IF musicRequest.youtubeVideoId # NoText
  THEN /\ musicPlayers' = Append(musicPlayers,
            [id |-> triggerMessageId, triggerMessageId |-> triggerMessageId,
             videoId |-> musicRequest.youtubeVideoId,
             title |-> IF musicRequest.musicType # NoText
                       THEN musicRequest.musicType ELSE MusicTitle])
       /\ UNCHANGED musicCalls
  ELSE /\ musicCalls' = musicCalls \cup
            {[triggerMessageId |-> triggerMessageId, query |-> musicRequest.searchQuery,
              title |-> IF musicRequest.musicType # NoText
                        THEN musicRequest.musicType ELSE MusicTitle]}
       /\ UNCHANGED <<musicPlayers>>

\* What both turn handlers do with the response once the assistant message exists.
presentResponse(t, aiResponse, assistantId) ==
  /\ playAssistantVoice(aiResponse.message, t.id)
  /\ currentMicroActions' = IF aiResponse.microActions.present
                            THEN aiResponse.microActions.list ELSE currentMicroActions
  /\ IF aiResponse.musicRequest.present /\ aiResponse.musicRequest.shouldPlay
     THEN handleMusicRequest(aiResponse.musicRequest, assistantId)
     ELSE UNCHANGED music
  /\ sessionState' = "idle"

\* A page that displays the level the reply reports.
finishUserTextTrustsModel(t, aiResponse) ==
  /\ safetyLevel' = aiResponse.safetyLevel
  /\ showSafetyBanner' = IF aiResponse.safetyLevel # Safe THEN TRUE ELSE showSafetyBanner
  /\ messages' = Append(messages, AssistantMessage(Len(messages) + 1, aiResponse))
  /\ presentResponse(t, aiResponse, Len(messages) + 1)
  /\ turns' = turns \ {t}

\* processUserText after Promise.all resolved.
finishUserText(t, aiResponse) ==
  LET safety == detectSafetyLevel(t.text) IN
  /\ safetyLevel' = safety
  /\ showSafetyBanner' = IF safety # Safe THEN TRUE ELSE showSafetyBanner
  /\ messages' = Append(messages, AssistantMessage(Len(messages) + 1, aiResponse))
  /\ presentResponse(t, aiResponse, Len(messages) + 1)
  /\ turns' = turns \ {t}

\* handleMicroActionClick after getAIResponse resolved.
finishMicroAction(t, aiResponse) ==
  /\ messages' = messages \o
       << UserMessage(Len(messages) + 1, ClickedMarker(t.text)),
          AssistantMessage(Len(messages) + 2, aiResponse) >>
  /\ presentResponse(t, aiResponse, Len(messages) + 2)
  /\ safetyLevel' = IF aiResponse.safetyLevel # Safe
                    THEN aiResponse.safetyLevel ELSE safetyLevel
  /\ showSafetyBanner' = IF aiResponse.safetyLevel # Safe THEN TRUE ELSE showSafetyBanner
  /\ turns' = turns \ {t}

\* The /api/ai-response call of turn t, as it was served.
AiRequest(t) ==
  [userMessage |-> IF t.kind = "micro" THEN buildMicroActionMessage([title |-> t.text])
                   ELSE t.text,
   sessionId |-> SessionId,
   interactionType |-> IF t.kind = "micro" THEN "micro_action_click" ELSE "user_message"]

\* fetch('/api/ai-response') settles: the route ran (unless the request never
\* reached it) and getAIResponse resolves with its body or the fallback.
\* disk: whether the log file could be appended to.
AiResponseOn(t, o, reached, disk) ==
  LET res == respondAfterLog(handler(AiRequest(t), o.search, o.llm), disk) IN
  IF ~reached \/ o.net = "rejected" THEN getAIResponse(res, FALSE)
  ELSE IF o.net = "status" THEN getAIResponse([res EXCEPT !.status = 502], TRUE)
  ELSE getAIResponse(res, TRUE)

AiResponseOf(t, o, reached) == AiResponseOn(t, o, reached, "ok")

AiSettlesOn(t, o, reached, disk) ==
  /\ t \in turns /\ t.pc = "awaiting" /\ ~t.aiDone
  /\ ~reached => o.net = "rejected"
  /\ LET res == handler(AiRequest(t), o.search, o.llm)
         aiResponse == AiResponseOn(t, o, reached, disk)
     IN /\ logStore' = IF reached /\ res.logged # << >>
                       THEN logConversation(logStore, res.logged[1], disk)
                       ELSE logStore
        /\ IF t.kind = "micro"
           THEN finishMicroAction(t, aiResponse)
           ELSE IF t.safetyDone
           THEN finishUserText(t, aiResponse)
           ELSE /\ turns' = (turns \ {t}) \cup {[t EXCEPT !.aiDone = TRUE, !.ai = aiResponse]}
                /\ UNCHANGED <<session, voice, musicCalls>>
  /\ lastOp' = "AiSettles"
  /\ UNCHANGED <<mounted, browser, mountTimer, mic, recording, nStarted>>

\* The same with the log file writable.
AiSettles(t, o, reached) == AiSettlesOn(t, o, reached, "ok")

\* /api/ai-response serving the request of another client (another tab's session,
\* or any HTTP client): on this page only the shared log file changes.
OtherSessionId == <<"s", "2">>
ForeignText == <<"h", "i">>
ForeignSessionIds == {OtherSessionId, KeyConstructor}

ForeignRequest(sessionId, o, disk) ==
  /\ LET res == handler([userMessage |-> ForeignText, sessionId |-> sessionId,
                         interactionType |-> "user_message"], o.search, o.llm)
     IN /\ res.logged # << >>
        /\ logStore' = logConversation(logStore, res.logged[1], disk)
  /\ lastOp' = "ForeignRequest"
  /\ UNCHANGED <<mounted, browser, mountTimer, session, mic, recording, turns, voice,
                 musicCalls, nStarted>>

\* checkSafetyLevel's 300 ms timer fires.
SafetySettles(t) ==
  /\ t \in turns /\ t.pc = "awaiting" /\ t.kind # "micro" /\ ~t.safetyDone
  /\ IF t.aiDone
     THEN finishUserText(t, t.ai)
     ELSE /\ turns' = (turns \ {t}) \cup {[t EXCEPT !.safetyDone = TRUE]}
          /\ UNCHANGED <<session, voice, musicCalls>>
  /\ lastOp' = "SafetySettles"
  /\ UNCHANGED <<mounted, browser, mountTimer, mic, recording, logStore, nStarted>>

\* The search fetch of handleMusicRequest settles.
MusicSearchSettles(c, yt, net) ==
  /\ c \in musicCalls
  /\ musicCalls' = musicCalls \ {c}
  /\ LET res == youtubeSearchHandler(c.query, yt) IN
     IF net = "delivered" /\ res.status = 200 /\ res.videoId # NoText
     THEN /\ musicPlayers' = Append(musicPlayers,
               [id |-> c.triggerMessageId, triggerMessageId |-> c.triggerMessageId,
                videoId |-> res.videoId, title |-> c.title])
     ELSE UNCHANGED musicPlayers
  /\ lastOp' = "MusicSearchSettles"
  /\ UNCHANGED <<mounted, browser, mountTimer, sessionState, messages, safetyLevel,
                 showSafetyBanner, currentMicroActions, mic, recording, turns, voice,
                 logStore, nStarted>>

\* A page whose close button clears the whole list.
CloseAllMusicPlayers(playerId) ==
  /\ \E i \in 1..Len(musicPlayers) : musicPlayers[i].id = playerId
  /\ musicPlayers' = << >>
  /\ lastOp' = "CloseMusicPlayer"
  /\ UNCHANGED <<mounted, browser, mountTimer, sessionState, messages, safetyLevel,
                 showSafetyBanner, currentMicroActions, musicCalls, mic,
                 recording, turns, voice, logStore, nStarted>>

\* handleCloseMusicPlayer.
CloseMusicPlayer(playerId) ==
  /\ \E i \in 1..Len(musicPlayers) : musicPlayers[i].id = playerId
  /\ musicPlayers' = SelectSeq(musicPlayers, LAMBDA player : player.id # playerId)
  /\ lastOp' = "CloseMusicPlayer"
  /\ UNCHANGED <<mounted, browser, mountTimer, sessionState, messages, safetyLevel,
                 showSafetyBanner, currentMicroActions, musicCalls, mic,
                 recording, turns, voice, logStore, nStarted>>

\* Whether the page renders the safety banner: SessionPage mounts SafetyBanner
\* when showSafetyBanner is set, and SafetyBanner renders nothing for safe.
SafetyBannerVisible == showSafetyBanner /\ safetyLevel # Safe

\* The safety banner's dismiss button (rendered only for a non-safe level).
DismissSafetyBanner ==
  /\ showSafetyBanner /\ safetyLevel # Safe
  /\ showSafetyBanner' = FALSE
  /\ lastOp' = "DismissSafetyBanner"
  /\ UNCHANGED <<mounted, browser, mountTimer, sessionState, messages, safetyLevel,
                 currentMicroActions, music, mic, recording, turns, voice, logStore,
                 nStarted>>

\* --------------------------------------------------------- specifications
\* The user and the environment act within the bounds: a click that would start
\* another turn, or a request that would reach the device once more, is left out.
MayStartTurn(max) == Busy \/ nStarted < max
MayRequestMic(max) == nMicCalls < max

\* The session with every handler and event, over a few inputs of each kind.
CoreTexts == {TxtBlank, TxtCrisis}
CoreStt == {SttHttpError, SttText(NoText), SttText(TxtBlank), SttText(TxtSafe)}
CoreAi ==
  {[search |-> SearchFails, llm |-> l, net |-> "delivered"] :
     l \in {[kind |-> "http", parsed |-> BaseParsed], [kind |-> "json", parsed |-> BaseParsed]}}
CoreMic == {"granted", "NotAllowedError"}
CoreRec == {"ok", "startThrows"}
CoreTts == {"ok", "status"}

Next ==
  \/ MayRequestMic(MaxMicRequests) /\ MountTimerFires
  \/ MayRequestMic(MaxMicRequests) /\ RetryMicrophone
  \/ \E rec \in CoreRec :
       MayStartTurn(MaxTurns) /\ MayRequestMic(MaxMicRequests) /\ StartRecording(rec)
  \/ \E c \in micCalls, out \in CoreMic, rec \in CoreRec : MicSettles(c, out, rec)
  \/ StopRecording
  \/ \E t \in turns, stt \in CoreStt : TranscribeSettles(t, stt, "delivered")
  \/ \E text \in CoreTexts : MayStartTurn(MaxTurns) /\ SubmitTypedMessage(text)
  \/ \E i \in 1..Len(currentMicroActions) : MayStartTurn(MaxTurns) /\ ClickMicroAction(i)
  \/ \E t \in turns, o \in CoreAi : AiSettles(t, o, TRUE)
  \/ \E t \in turns : SafetySettles(t)
  \/ \E a \in ttsCalls, out \in CoreTts : TtsSettles(a, out)
  \/ \E a \in playing : AudioEnds(a)
  \/ DismissSafetyBanner

Spec == Init /\ [][Next]_vars


\* Input handling: typed submissions and micro-action clicks in every session
\* state, with replies that leave micro-actions and a music player on the page.
InputTexts == {TxtBlank, TxtSafe}
InputAi ==
  {[search |-> SearchFails, llm |-> l, net |-> "delivered"] :
     l \in {[kind |-> "http", parsed |-> BaseParsed],
            [kind |-> "json",
             parsed |-> [BaseParsed EXCEPT
                           !.microActions = MicroActions(<< [id |-> NoText, title |-> Title1] >>),
                           !.musicRequest = MusicRequest(TRUE, NoText, VideoId, NoText)]]}}

NextInput ==
  \/ MayRequestMic(MaxMicRequests) /\ MountTimerFires
  \/ MayStartTurn(MaxTurns) /\ MayRequestMic(MaxMicRequests) /\ StartRecording("ok")
  \/ \E c \in micCalls : MicSettles(c, "granted", "ok")
  \/ StopRecording
  \/ \E t \in turns : TranscribeSettles(t, SttHttpError, "delivered")
  \/ \E text \in InputTexts : MayStartTurn(MaxTurns) /\ SubmitTypedMessage(text)
  \/ \E i \in 1..Len(currentMicroActions) : MayStartTurn(MaxTurns) /\ ClickMicroAction(i)
  \/ \E t \in turns, o \in InputAi : AiSettles(t, o, TRUE)
  \/ \E t \in turns : SafetySettles(t)

SpecInput == Init /\ [][NextInput]_vars

\* Recorded turns when the transcription collaborator fails every time; every
\* remote call and the classifier's timer settle eventually.  The user acts once
\* the page's 100 ms mount timer has fired.
PageSettled == ~mountTimer
FailingAi ==
  {[search |-> SearchFails, llm |-> [kind |-> k, parsed |-> BaseParsed], net |-> "delivered"] :
     k \in {"http", "json"}}

TranscriptionFails == \E t \in turns, stt \in SttFailures : TranscribeSettles(t, stt, "delivered")
AiResponds == \E t \in turns, o \in FailingAi : AiSettles(t, o, TRUE)
SafetyResponds == \E t \in turns : SafetySettles(t)

NextSttFails ==
  \/ MayRequestMic(MaxMicRequests) /\ MountTimerFires
  \/ PageSettled /\ MayStartTurn(MaxTurns) /\ MayRequestMic(MaxMicRequests)
       /\ StartRecording("ok")
  \/ \E c \in micCalls : MicSettles(c, "granted", "ok")
  \/ StopRecording
  \/ TranscriptionFails
  \/ PageSettled /\ MayStartTurn(MaxTurns) /\ SubmitTypedMessage(TxtSafe)
  \/ AiResponds
  \/ SafetyResponds

SpecSttFails ==
  /\ Init /\ [][NextSttFails]_vars
  /\ WF_vars(TranscriptionFails) /\ WF_vars(AiResponds) /\ WF_vars(SafetyResponds)

\* Voice playback around recordings: replies are spoken while the next one is
\* being typed or recorded.
VoiceTurns == 3
VoiceAi == {[search |-> SearchFails, llm |-> [kind |-> "json", parsed |-> BaseParsed],
             net |-> "delivered"]}

NextVoice ==
  \/ MayRequestMic(MaxMicRequests) /\ MountTimerFires
  \/ MayStartTurn(VoiceTurns) /\ MayRequestMic(MaxMicRequests) /\ StartRecording("ok")
  \/ \E c \in micCalls : MicSettles(c, "granted", "ok")
  \/ StopRecording
  \/ \E t \in turns : TranscribeSettles(t, SttText(TxtSafe), "delivered")
  \/ MayStartTurn(VoiceTurns) /\ SubmitTypedMessage(TxtSafe)
  \/ \E t \in turns, o \in VoiceAi : AiSettles(t, o, TRUE)
  \/ \E t \in turns : SafetySettles(t)
  \/ \E a \in ttsCalls, out \in TtsOutcomes : TtsSettles(a, out)
  \/ \E a \in playing : AudioEnds(a)
  \/ \E a \in rejecting : PlayRejected(a)

SpecVoice == Init /\ [][NextVoice]_vars

\* What a completed turn puts on the page, over the replies the model can give.
ContentAi ==
  {[search |-> SearchFails, llm |-> l, net |-> "delivered"] :
     l \in {[kind |-> "http", parsed |-> BaseParsed]}
             \cup {[kind |-> "json", parsed |-> [BaseParsed EXCEPT !.safetyLevel = lv]] :
                     lv \in ParsedLevels}
             \cup {[kind |-> "json", parsed |-> [BaseParsed EXCEPT !.microActions = m]] :
                     m \in ParsedMicroActions}}

NextContent ==
  \/ \E text \in TypedTexts : MayStartTurn(MaxTurns) /\ SubmitTypedMessage(text)
  \/ \E i \in 1..Len(currentMicroActions) : MayStartTurn(MaxTurns) /\ ClickMicroAction(i)
  \/ \E t \in turns, o \in ContentAi : AiSettles(t, o, TRUE)
  \/ \E t \in turns : SafetySettles(t)
  \/ DismissSafetyBanner

SpecContent == Init /\ [][NextContent]_vars


\* Music requests: replies that ask for music by query or by video id, and the
\* video search settling in every way.
MusicAi ==
  {[search |-> SearchFails, llm |-> [kind |-> "json", parsed |-> p], net |-> "delivered"] :
     p \in {[BaseParsed EXCEPT !.musicRequest = r] : r \in ParsedMusicRequests}
            \cup {[BaseParsed EXCEPT
                     !.microActions = MicroActions(<< [id |-> NoText, title |-> Title1] >>),
                     !.musicRequest = MusicRequest(TRUE, Query, NoText, NoText)]}}

NextMusic ==
  \/ MayStartTurn(MaxTurns) /\ SubmitTypedMessage(TxtSafe)
  \/ \E i \in 1..Len(currentMicroActions) : MayStartTurn(MaxTurns) /\ ClickMicroAction(i)
  \/ \E t \in turns, o \in MusicAi : AiSettles(t, o, TRUE)
  \/ \E t \in turns : SafetySettles(t)
  \/ \E c \in musicCalls, yt \in YtOutcomes, net \in NetOutcomes : MusicSearchSettles(c, yt, net)
  \/ \E i \in 1..Len(musicPlayers) : CloseMusicPlayer(musicPlayers[i].id)

SpecMusic == Init /\ [][NextMusic]_vars

\* Logging: turns whose AI call succeeds or fails in every way, with the log file
\* writable or not.
LogAi ==
  {[search |-> SearchFails, llm |-> l, net |-> n] :
     l \in {[kind |-> k, parsed |-> BaseParsed] : k \in LlmFailureKinds}
            \cup {[kind |-> "json",
                   parsed |-> [BaseParsed EXCEPT
                      !.microActions = MicroActions(<< [id |-> NoText, title |-> Title1] >>)]]},
     n \in NetOutcomes}

NextLog ==
  \/ MayStartTurn(MaxTurns) /\ SubmitTypedMessage(TxtSafe)
  \/ \E i \in 1..Len(currentMicroActions) : MayStartTurn(MaxTurns) /\ ClickMicroAction(i)
  \/ \E t \in turns, o \in LogAi, reached \in BOOLEAN, disk \in DiskOutcomes :
       AiSettlesOn(t, o, reached, disk)
  \/ \E t \in turns : SafetySettles(t)

SpecLog == Init /\ [][NextLog]_vars

\* The classifier: typed texts with crisis keywords, caution keywords, both,
\* capitals, and none.
ClassifierTexts == {TxtSafe, TxtCaution, TxtCrisis, TxtMixed, TxtShout, TxtNearMiss}

NextClassifier ==
  \/ \E text \in ClassifierTexts : MayStartTurn(MaxTurns) /\ SubmitTypedMessage(text)
  \/ \E t \in turns, o \in VoiceAi : AiSettles(t, o, TRUE)
  \/ \E t \in turns : SafetySettles(t)
  \/ DismissSafetyBanner

SpecClassifier == Init /\ [][NextClassifier]_vars

\* The capture stream over the page's life: the eager request, requests made by
\* start-recording clicks and by Retry, recordings, and the page being left.
NextMic ==
  \/ MayRequestMic(MaxMicRequests) /\ MountTimerFires
  \/ mounted /\ MayRequestMic(MaxMicRequests) /\ RetryMicrophone
  \/ \E rec \in CoreRec :
       mounted /\ MayStartTurn(MaxTurns) /\ MayRequestMic(MaxMicRequests) /\ StartRecording(rec)
  \/ \E c \in micCalls, out \in CoreMic, rec \in CoreRec : MicSettles(c, out, rec)
  \/ mounted /\ StopRecording
  \/ \E t \in turns : TranscribeSettles(t, SttHttpError, "delivered")
  \/ \E t \in turns, o \in VoiceAi : AiSettles(t, o, TRUE)
  \/ \E t \in turns : SafetySettles(t)
  \/ Teardown

SpecMic == Init /\ [][NextMic]_vars

\* The log file shared by this page's turns and other clients' requests.
MaxRecords == 3
MayLog(max) == Len(logStore) < 2 * max

NextLogger ==
  \/ MayStartTurn(MaxTurns) /\ MayLog(MaxRecords) /\ SubmitTypedMessage(TxtSafe)
  \/ \E t \in turns, o \in VoiceAi, disk \in DiskOutcomes : AiSettlesOn(t, o, TRUE, disk)
  \/ \E t \in turns : SafetySettles(t)
  \/ \E sessionId \in ForeignSessionIds, o \in VoiceAi, disk \in DiskOutcomes :
       MayLog(MaxRecords) /\ ForeignRequest(sessionId, o, disk)

SpecLogger == Init /\ [][NextLogger]_vars

\* Music players beside recordings: recorded turns, spoken replies, searches
\* that find a video or fail, and dismissals.
PlayersAi ==
  {[search |-> SearchFails, llm |-> [kind |-> "json", parsed |-> p], net |-> "delivered"] :
     p \in {[BaseParsed EXCEPT !.musicRequest = r] :
              r \in {MusicRequest(TRUE, Query, NoText, Calm),
                     MusicRequest(TRUE, NoText, VideoId, NoText)}}}
PlayersYt == {yt \in YtOutcomes : yt.kind \in {"item", "http"}}

NextPlayers ==
  \/ MayRequestMic(MaxMicRequests) /\ MountTimerFires
  \/ PageSettled /\ MayStartTurn(MaxTurns) /\ MayRequestMic(MaxMicRequests)
       /\ StartRecording("ok")
  \/ \E c \in micCalls : MicSettles(c, "granted", "ok")
  \/ StopRecording
  \/ \E t \in turns : TranscribeSettles(t, SttText(TxtSafe), "delivered")
  \/ \E t \in turns, o \in PlayersAi : AiSettles(t, o, TRUE)
  \/ \E t \in turns : SafetySettles(t)
  \/ \E c \in musicCalls, yt \in PlayersYt : MusicSearchSettles(c, yt, "delivered")
  \/ \E a \in ttsCalls : TtsSettles(a, "ok")
  \/ \E a \in playing : AudioEnds(a)
  \/ \E i \in 1..Len(musicPlayers) : CloseMusicPlayer(musicPlayers[i].id)

SpecPlayers == Init /\ [][NextPlayers]_vars

\* Resolving music requests of every shape: with a query, a video id, both, or
\* neither.
ResolveAi ==
  {[search |-> SearchFails, llm |-> [kind |-> "json", parsed |-> p], net |-> "delivered"] :
     p \in {[BaseParsed EXCEPT !.musicRequest = r] :
              r \in ParsedMusicRequests \cup {MusicRequest(TRUE, Query, VideoId, Title2)}}}

NextResolve ==
  \/ MayStartTurn(MaxTurns) /\ SubmitTypedMessage(TxtSafe)
  \/ \E t \in turns, o \in ResolveAi : AiSettles(t, o, TRUE)
  \/ \E t \in turns : SafetySettles(t)
  \/ \E c \in musicCalls, yt \in PlayersYt : MusicSearchSettles(c, yt, "delivered")

SpecResolve == Init /\ [][NextResolve]_vars

\* What /api/ai-response makes of the model's reply: safety levels the model
\* may write, micro-actions with and without ids, and the reference lookup
\* failing, throwing, or finding more than is kept.
OddLevelReply == [BaseParsed EXCEPT !.safetyLevel = "CRISIS", !.message = TxtShout]
NoRefsText == <<"a", "l", "o", "n", "e">>
ClashingMicroActions ==
  MicroActions(<< [id |-> LlmId(1), title |-> Title1], [id |-> NoText, title |-> Title2] >>)

HandlerAi ==
  {[search |-> SearchFails, llm |-> [kind |-> "json", parsed |-> p], net |-> "delivered"] :
     p \in {[BaseParsed EXCEPT !.safetyLevel = lv] : lv \in ParsedLevels}
            \cup {OddLevelReply}
            \cup {[BaseParsed EXCEPT !.microActions = m] :
                    m \in ParsedMicroActions \cup {ClashingMicroActions}}}
    \cup {[search |-> s, llm |-> l, net |-> "delivered"] :
            s \in {SearchFails, SearchThrows},
            l \in {[kind |-> "http", parsed |-> BaseParsed],
                   [kind |-> "json", parsed |-> [BaseParsed EXCEPT !.message = NoRefsText]]}}
    \cup {[search |-> SearchFinds(n), llm |-> [kind |-> "json", parsed |-> BaseParsed],
           net |-> "delivered"] : n \in {MAX_REFERENCES - 1, MAX_REFERENCES + 1}}

NextHandler ==
  \/ MayStartTurn(MaxTurns) /\ SubmitTypedMessage(TxtSafe)
  \/ \E i \in 1..Len(currentMicroActions) : MayStartTurn(MaxTurns) /\ ClickMicroAction(i)
  \/ \E t \in turns, o \in HandlerAi : AiSettles(t, o, TRUE)
  \/ \E t \in turns : SafetySettles(t)

SpecHandler == Init /\ [][NextHandler]_vars

\* Acquiring the microphone with every answer the device and the recorder can
\* give, from the mount request, start-recording clicks and Retry.
AcquireOutcomes == MicOutcomes \cup MicRetryOutcomes

NextAcquire ==
  \/ MayRequestMic(MaxMicRequests) /\ MountTimerFires
  \/ MayRequestMic(MaxMicRequests) /\ RetryMicrophone
  \/ \E rec \in RecorderOutcomes :
       MayStartTurn(MaxTurns) /\ MayRequestMic(MaxMicRequests) /\ StartRecording(rec)
  \/ \E c \in micCalls, out \in AcquireOutcomes, rec \in RecorderOutcomes : MicSettles(c, out, rec)
  \/ StopRecording
  \/ \E t \in turns : TranscribeSettles(t, SttHttpError, "delivered")
  \/ \E t \in turns, o \in VoiceAi : AiSettles(t, o, TRUE)
  \/ \E t \in turns : SafetySettles(t)

SpecAcquire == Init /\ [][NextAcquire]_vars

\* Stop requests in every state: recordings started from clicks that may
\* overlap, the device granting or refusing, and voice turns running on.
StopMic == {"granted", "denied"}

NextStop ==
  \/ MayRequestMic(MaxMicRequests) /\ MountTimerFires
  \/ MayStartTurn(MaxTurns) /\ MayRequestMic(MaxMicRequests) /\ StartRecording("ok")
  \/ \E c \in micCalls, out \in StopMic : MicSettles(c, out, "ok")
  \/ handleStopRecording
  \/ \E t \in turns : TranscribeSettles(t, SttText(TxtSafe), "delivered")
  \/ \E t \in turns, o \in VoiceAi : AiSettles(t, o, TRUE)
  \/ \E t \in turns : SafetySettles(t)

SpecStop == Init /\ [][NextStop]_vars

\* The safety banner: typed turns over texts of each level and micro-action
\* clicks, replies that report each level or an unknown one, with the model call
\* failing or not, and the banner being dismissed.
BannerTexts == {TxtSafe, TxtCaution, TxtCrisis}
BannerAi ==
  {[search |-> SearchFails,
    llm |-> [kind |-> "json",
             parsed |-> [BaseParsed EXCEPT
                !.safetyLevel = l,
                !.microActions = MicroActions(<< [id |-> GivenId, title |-> Title1] >>)]],
    net |-> "delivered"] : l \in {Safe, Caution, "CRISIS"}}
    \cup {[search |-> SearchFails, llm |-> [kind |-> "http", parsed |-> BaseParsed],
           net |-> "delivered"]}

NextBanner ==
  \/ \E text \in BannerTexts : MayStartTurn(MaxTurns) /\ SubmitTypedMessage(text)
  \/ \E i \in 1..Len(currentMicroActions) : MayStartTurn(MaxTurns) /\ ClickMicroAction(i)
  \/ \E t \in turns, o \in BannerAi : AiSettles(t, o, TRUE)
  \/ \E t \in turns : SafetySettles(t)
  \/ DismissSafetyBanner

SpecBanner == Init /\ [][NextBanner]_vars

\* Spoken replies: typed turns whose reply has words or is blank, the synthesis
\* request settling in every way, and the events of the elements it creates.
BlankReply ==
  [search |-> SearchFails,
   llm |-> [kind |-> "json", parsed |-> [BaseParsed EXCEPT !.message = TxtBlank]],
   net |-> "delivered"]
PlaybackAi == VoiceAi \cup {BlankReply}

NextPlayback ==
  \/ MayStartTurn(MaxTurns) /\ SubmitTypedMessage(TxtSafe)
  \/ \E t \in turns, o \in PlaybackAi : AiSettles(t, o, TRUE)
  \/ \E t \in turns : SafetySettles(t)
  \/ \E a \in ttsCalls, out \in TtsOutcomes : TtsSettles(a, out)
  \/ \E a \in playing : AudioEnds(a)
  \/ \E a \in rejecting : PlayRejected(a)

SpecPlayback == Init /\ [][NextPlayback]_vars

\* -------------------------------------------------------------- properties
OutstandingAiRequests == {t \in turns : t.pc = "awaiting" /\ ~t.aiDone}
TurnInProgress == turns # {} \/ sessionState \in {"processing", "responding"}

\* C1: at most one turn is in flight: there is never more than one outstanding
\* AI-response request, and no recording is started or running while another
\* turn is in processing or responding.
C1_OneTurnInFlight ==
  /\ Cardinality(OutstandingAiRequests) <= 1
  /\ recorders # {} => ~TurnInProgress

DocumentedTransitions ==
  { <<"idle", "recording">>, <<"recording", "processing">>, <<"processing", "responding">>,
    <<"responding", "idle">>, <<"idle", "responding">> }
AssistantMessageAppended ==
  /\ Len(messages') > Len(messages)
  /\ messages'[Len(messages')].role = "assistant"

\* C2: the session starts idle, every change of sessionState is one of the five
\* documented transitions, and a step that completes a turn leaves it idle.
C2_DocumentedTransitions ==
  /\ sessionState = "idle"
  /\ [][/\ sessionState' # sessionState =>
             <<sessionState, sessionState'>> \in DocumentedTransitions
        /\ AssistantMessageAppended => sessionState' = "idle"]_vars

\* C3: a typed submission or a micro-action click that arrives while the session
\* is not idle appends no message, issues no AI request and leaves sessionState,
\* the micro-action list and the music player list as they were.
C3_InputIgnoredWhileBusy ==
  [][(/\ sessionState # "idle"
      /\ \/ \E text \in InputTexts : SubmitTypedMessage(text)
         \/ \E i \in 1..Len(currentMicroActions) : ClickMicroAction(i))
     => UNCHANGED <<messages, turns, logStore, sessionState, currentMicroActions,
                    musicPlayers>>]_vars

\* C3 happens: a submission was ignored while a reply was awaited, with
\* micro-actions and a music player on the page.
C3_Witness ==
  /\ lastOp \in {"SubmitTypedIgnored", "MicroActionIgnored"}
  /\ sessionState = "responding"
  /\ currentMicroActions # << >>
  /\ musicPlayers # << >>

\* C4: a session in processing or responding is never stuck: some suspended
\* call of a turn or of a start-recording request is still to resume and move it on.
C4_NeverStuck ==
  sessionState \in {"processing", "responding"} =>
    (turns # {} \/ \E c \in micCalls : c.caller = "start")

BlankTranscripts == {SttText(NoText), SttText(TxtBlank)}

\* C5: a recorded turn whose transcript is empty or whitespace-only still moves
\* from processing to responding, carrying the fallback string as its text.
C5_BlankTranscriptProceeds ==
  [][\A t \in turns, stt \in BlankTranscripts :
       TranscribeSettles(t, stt, "delivered") =>
         /\ sessionState' = "responding"
         /\ \E u \in turns' : u.id = t.id /\ u.pc = "awaiting" /\ u.text = SttFallbackText]_vars

VoiceTurnPending(id) == \E t \in turns : t.id = id /\ t.kind = "voice"

\* C6: when transcription always fails, every recorded turn ends, and it ends in
\* a step that appends an assistant message and returns the session to idle.
C6_FailedTranscriptionStillAnswers ==
  /\ [][\A t \in turns :
          (t.kind = "voice" /\ ~\E u \in turns' : u.id = t.id) =>
            (AssistantMessageAppended /\ sessionState' = "idle")]_vars
  /\ \A id \in 1..MaxTurns : VoiceTurnPending(id) ~> ~VoiceTurnPending(id)

\* C6 happens: a recorded turn carried the fallback transcript and was answered.
C6_Witness ==
  /\ sessionState = "idle"
  /\ \E i \in 1..(Len(messages) - 1) :
       /\ messages[i].role = "user" /\ messages[i].content = SttFallbackText
       /\ messages[i + 1].role = "assistant"

\* C7: at most one playback instance is active in every reachable state.
C7_SinglePlayback == Cardinality(playing) <= 1

\* C8: a start-recording click made while a playback is active and that begins
\* the recording leaves no playback instance active.
C8_RecordingSilencesPlayback ==
  [][(/\ playing # {}
      /\ StartRecording("ok")
      /\ sessionState' = "recording") => playing' = {}]_vars

Rank(level) == CASE level = Crisis -> 2 [] level = Caution -> 1 [] OTHER -> 0
Stricter(a, b) == IF Rank(a) >= Rank(b) THEN a ELSE b

\* C9: after a user-text turn the displayed safety level is the stricter of the
\* classifier's level for the text and the level the reply reports.
C9_StricterLevelDisplayed ==
  [][/\ \A t \in turns, o \in ContentAi :
          (t.kind # "micro" /\ t.safetyDone /\ AiSettles(t, o, TRUE)) =>
            safetyLevel' = Stricter(detectSafetyLevel(t.text),
                                    AiResponseOf(t, o, TRUE).safetyLevel)
     /\ \A t \in turns :
          (t.aiDone /\ SafetySettles(t)) =>
            safetyLevel' = Stricter(detectSafetyLevel(t.text), t.ai.safetyLevel)]_vars

ListOf(aiResponse) ==
  IF aiResponse.microActions.present THEN aiResponse.microActions.list ELSE << >>

\* C10: every completed turn replaces the micro-action list with the reply's
\* list, and with the empty list when the reply carries none.
C10_MicroActionsReplaced ==
  [][/\ \A t \in turns, o \in ContentAi :
          ((t.kind = "micro" \/ t.safetyDone) /\ AiSettles(t, o, TRUE)) =>
            currentMicroActions' = ListOf(AiResponseOf(t, o, TRUE))
     /\ \A t \in turns :
          (t.aiDone /\ SafetySettles(t)) => currentMicroActions' = ListOf(t.ai)]_vars


AsksForSearch(aiResponse) ==
  /\ aiResponse.musicRequest.present /\ aiResponse.musicRequest.shouldPlay
  /\ aiResponse.musicRequest.searchQuery # NoText
  /\ aiResponse.musicRequest.youtubeVideoId = NoText

\* The completing step hands the search exactly one call, tagged with the
\* assistant message it has just appended.
SearchTaggedWithAssistant ==
  /\ AssistantMessageAppended
  /\ \E c \in musicCalls' :
       /\ c.triggerMessageId = messages'[Len(messages')].id
       /\ musicCalls' = musicCalls \cup {c}
       /\ c \notin musicCalls
  /\ musicPlayers' = musicPlayers

TaggedWith(id) ==
  Cardinality({c \in musicCalls : c.triggerMessageId = id})
    + Cardinality({i \in 1..Len(musicPlayers) : musicPlayers[i].triggerMessageId = id})

\* C11: a reply whose music request has shouldPlay true and a search query that
\* resolves adds exactly one player, and its triggerMessageId is the id of the
\* assistant message of the same turn.
C11_OnePlayerPerMusicRequest ==
  /\ [](\A id \in 1..Len(messages) : TaggedWith(id) <= 1)
  /\ [][/\ \A t \in turns, o \in MusicAi :
             ((t.kind = "micro" \/ t.safetyDone) /\ AiSettles(t, o, TRUE)
                /\ AsksForSearch(AiResponseOf(t, o, TRUE))) => SearchTaggedWithAssistant
        /\ \A t \in turns :
             (t.aiDone /\ SafetySettles(t) /\ AsksForSearch(t.ai)) => SearchTaggedWithAssistant
        /\ \A c \in musicCalls :
             MusicSearchSettles(c, [kind |-> "item", videoId |-> FoundVideoId], "delivered") =>
               /\ Len(musicPlayers') = Len(musicPlayers) + 1
               /\ SubSeq(musicPlayers', 1, Len(musicPlayers)) = musicPlayers
               /\ musicPlayers'[Len(musicPlayers')].triggerMessageId = c.triggerMessageId
               /\ musicPlayers'[Len(musicPlayers')].videoId = FoundVideoId
               /\ messages[c.triggerMessageId].role = "assistant"]_vars

\* C11 happens: the search resolved and its player sits under an assistant message.
C11_Witness ==
  /\ lastOp = "MusicSearchSettles"
  /\ \E i \in 1..Len(musicPlayers) :
       /\ musicPlayers[i].videoId = FoundVideoId
       /\ messages[musicPlayers[i].triggerMessageId].role = "assistant"

UnresolvedSearches ==
  {[kind |-> k, videoId |-> NoText] : k \in {"http", "noItems", "throw"}}

\* C12: when the media search fails or returns no results, no player is added.
C12_UnresolvedSearchAddsNothing ==
  [][\A c \in musicCalls, yt \in UnresolvedSearches :
       MusicSearchSettles(c, yt, "delivered") => musicPlayers' = musicPlayers]_vars


IsPrefix(a, b) == Len(a) <= Len(b) /\ SubSeq(b, 1, Len(a)) = a
Completing(t) == t.kind = "micro" \/ t.safetyDone
Answered == {o \in LogAi : o.llm.kind = "json" /\ o.net = "delivered"}
NotAnswered == LogAi \ Answered

\* The user text the page shows for turn t.
ShownUserText(t) == IF t.kind = "micro" THEN ClickedMarker(t.text) ELSE t.text

\* C13: a turn whose AI call succeeded adds exactly one record to the records
\* read back for the session, holding the user text and the assistant text the
\* page shows for that turn.
C13_TurnLoggedAsShown ==
  [][\A t \in turns, o \in Answered :
       AiSettlesOn(t, o, TRUE, "ok") =>
         LET old == getSessionLogs(logStore, SessionId)
             new == getSessionLogs(logStore', SessionId)
         IN /\ Len(new) = Len(old) + 1
            /\ IsPrefix(old, new)
            /\ new[Len(new)].userMessage = ShownUserText(t)
            /\ new[Len(new)].message = AiResponseOf(t, o, TRUE).message]_vars

\* The turn goes on with aiResponse: completed with its message shown and the
\* session idle, or held until the classifier's timer fires.
TurnGoesOnWith(t, aiResponse) ==
  IF Completing(t)
  THEN /\ AssistantMessageAppended
       /\ messages'[Len(messages')].content = aiResponse.message
       /\ sessionState' = "idle"
  ELSE \E u \in turns' : u.id = t.id /\ u.aiDone /\ u.ai = aiResponse

\* C14: when the log append fails the route still sends the response it sends
\* when the append succeeds, and the turn goes on to idle with that response.
C14_LogFailureDoesNotFailTurn ==
  [][\A t \in turns, o \in LogAi :
       AiSettlesOn(t, o, TRUE, "fails") =>
         /\ TurnGoesOnWith(t, AiResponseOf(t, o, TRUE))
         /\ logStore' = logStore]_vars

\* C14 happens: a reply of the model is on the page and nothing could be logged.
C14_Witness ==
  /\ sessionState = "idle"
  /\ readConversationLogs(logStore) = << >>
  /\ \E i \in 1..Len(messages) :
       messages[i].role = "assistant" /\ messages[i].content = ReplyText

\* C15: when the model's content cannot be parsed the turn takes the fallback
\* and a log record carrying the parse error is written.
C15_ParseErrorLogged ==
  [][\A t \in turns, o \in {x \in LogAi : x.llm.kind = "badjson" /\ x.net = "delivered"} :
       AiSettlesOn(t, o, TRUE, "ok") =>
         /\ TurnGoesOnWith(t, FallbackResponse)
         /\ LET old == readConversationLogs(logStore)
                new == readConversationLogs(logStore')
            IN /\ Len(new) = Len(old) + 1
               /\ new[Len(new)].error # NoParseError]_vars

FixedFallback(aiResponse) ==
  /\ aiResponse.message = AiFallbackText
  /\ aiResponse.microActions.present /\ Len(aiResponse.microActions.list) = 1
  /\ aiResponse.safetyLevel = Safe
  /\ aiResponse.references = << >>
  /\ ~aiResponse.musicRequest.present

\* C16: whenever the AI-response call fails the turn goes on with the fixed
\* fallback (apology, one micro-action, safe, no references, no music request),
\* and the step completing such a turn appends its assistant message.
C16_FailedCallGetsFallback ==
  [][/\ \A t \in turns, o \in NotAnswered, disk \in DiskOutcomes :
          AiSettlesOn(t, o, TRUE, disk) =>
            /\ FixedFallback(AiResponseOn(t, o, TRUE, disk))
            /\ TurnGoesOnWith(t, AiResponseOn(t, o, TRUE, disk))
     /\ \A t \in turns, o \in {x \in LogAi : x.net = "rejected"} :
          AiSettlesOn(t, o, FALSE, "ok") =>
            /\ FixedFallback(AiResponseOn(t, o, FALSE, "ok"))
            /\ TurnGoesOnWith(t, AiResponseOn(t, o, FALSE, "ok"))
     /\ \A t \in turns :
          (t.aiDone /\ t.ai.message = AiFallbackText /\ SafetySettles(t)) =>
            /\ FixedFallback(t.ai)
            /\ AssistantMessageAppended
            /\ messages'[Len(messages')].content = AiFallbackText
            /\ messages'[Len(messages')].references = << >>
            /\ Len(currentMicroActions') = 1
            /\ UNCHANGED music
            /\ sessionState' = "idle"]_vars

\* C16 happens: a turn ended with the fallback on the page.
C16_Witness ==
  /\ sessionState = "idle" /\ turns = {}
  /\ messages # << >>
  /\ messages[Len(messages)].role = "assistant"
  /\ messages[Len(messages)].content = AiFallbackText
  /\ Len(currentMicroActions) = 1

\* C20: every step leaves the records read so far as a prefix of the records
\* read afterwards, and an append adds exactly its one record at the end.
C20_AppendOnly ==
  [][/\ IsPrefix(readConversationLogs(logStore), readConversationLogs(logStore'))
     /\ \A t \in turns, o \in Answered :
          AiSettlesOn(t, o, TRUE, "ok") =>
            readConversationLogs(logStore') =
              readConversationLogs(logStore) \o handler(AiRequest(t), o.search, o.llm).logged]_vars

\* C20 happens: the store holds the records of two appends.
C20_Witness == Len(readConversationLogs(logStore)) >= 2


\* The keyword occurs in the text, letter case aside.
Occurs(keyword, text) ==
  \E i \in 1..(Len(text) - Len(keyword) + 1) :
    \A j \in 1..Len(keyword) : LowerChar(text[i + j - 1]) = keyword[j]

Classify(text) ==
  IF \E k \in crisisKeywords : Occurs(k, text) THEN Crisis
  ELSE IF \E k \in cautionKeywords : Occurs(k, text) THEN Caution
  ELSE Safe

\* C17: the level the classifier gives a turn depends on its text alone: crisis
\* when a crisis keyword occurs (even next to a caution keyword), else caution
\* when a caution keyword occurs, else safe.
C17_ClassifierRule ==
  [][/\ \A t \in turns, o \in VoiceAi :
          (t.kind # "micro" /\ t.safetyDone /\ AiSettles(t, o, TRUE)) =>
            safetyLevel' = Classify(t.text)
     /\ \A t \in turns :
          (t.aiDone /\ SafetySettles(t)) => safetyLevel' = Classify(t.text)]_vars

\* C17 happens: a text with a caution and a crisis keyword was classified crisis,
\* after one classified caution.
C17_Witness ==
  /\ Len(messages) = 4 /\ sessionState = "idle"
  /\ messages[1].content = TxtCaution /\ messages[3].content = TxtMixed
  /\ safetyLevel = Crisis


\* C18: stopping when nothing plays changes nothing, and stopping twice leaves
\* what stopping once leaves: no active playback and no held reference.
C18_StopIdempotent ==
  LET once == stopAssistantVoice(currentAudio, playing)
      twice == stopAssistantVoice(once.currentAudio, once.playing)
  IN /\ (currentAudio = NoAudio /\ playing = {}) =>
          (once.currentAudio = NoAudio /\ once.playing = {})
     /\ twice = once
     /\ once.currentAudio = NoAudio
     /\ once.playing = {}

\* C19: the session holds at most one capture stream with live tracks, and none
\* once the page has been left.
C19_OneStreamReleasedOnTeardown ==
  /\ Cardinality(streams) <= 1
  /\ ~mounted => streams = {}

\* C21: no logger operation raises; with the store missing or unreadable every
\* read is empty, and outside the server runtime append changes nothing and
\* every read is empty.
LoggerSessionIds == {SessionId} \cup ForeignSessionIds
SomeLog ==
  [sessionId |-> SessionId, type |-> "user_message", userMessage |-> ForeignText,
   message |-> ReplyText, safetyLevel |-> Safe, error |-> NoParseError]

C21_LoggerNeverRaises ==
  \A runtime \in Runtimes, fsRead \in FsReadOutcomes :
    /\ ~getLogsBySessionIn(runtime, fsRead, logStore).threw
    /\ (runtime # "server" \/ fsRead # "ok") =>
         /\ readConversationLogsIn(runtime, fsRead, logStore) = << >>
         /\ \A id \in LoggerSessionIds :
              getSessionLogsIn(runtime, fsRead, logStore, id) = << >>
         /\ getLogsBySessionIn(runtime, fsRead, logStore).grouped = NoGroups
    /\ runtime # "server" =>
         \A disk \in DiskOutcomes : logConversationIn(runtime, logStore, SomeLog, disk) = logStore

\* C22: readBySession(id) is the subsequence of readAll() with that session id,
\* and groupBySession() maps exactly the session ids of readAll(), each to
\* readBySession(id).
RECURSIVE SubsequenceOf(_, _)
SubsequenceOf(logs, id) ==
  IF logs = << >> THEN << >>
  ELSE IF Head(logs).sessionId = id THEN <<Head(logs)>> \o SubsequenceOf(Tail(logs), id)
  ELSE SubsequenceOf(Tail(logs), id)

SessionIdsOf(logs) == {logs[i].sessionId : i \in 1..Len(logs)}

C22_SessionViewsAgree ==
  LET all == readConversationLogs(logStore)
      byS == getLogsBySession(logStore)
  IN /\ \A id \in LoggerSessionIds : getSessionLogs(logStore, id) = SubsequenceOf(all, id)
     /\ ~byS.threw
     /\ DOMAIN byS.grouped = SessionIdsOf(all)
     /\ \A id \in SessionIdsOf(all) : byS.grouped[id] = getSessionLogs(logStore, id)

\* C23: the message sequence only grows at its end, and user and assistant
\* messages alternate, starting with a user message.
Alternating(msgs) ==
  \A i \in 1..Len(msgs) : msgs[i].role = IF i % 2 = 1 THEN "user" ELSE "assistant"

C23_MessagesAppendOnlyAlternating ==
  /\ []Alternating(messages)
  /\ [][IsPrefix(messages, messages')]_vars

\* C24: a step either keeps every player (the list grows at its end or stays),
\* or it is the dismissal of one player, which removes that player alone and
\* leaves the others as they were.
WithoutPlayer(players, i) ==
  SubSeq(players, 1, i - 1) \o SubSeq(players, i + 1, Len(players))

C24_PlayersRemovedOnlyByDismissal ==
  [][/\ \/ IsPrefix(musicPlayers, musicPlayers')
        \/ \E i \in 1..Len(musicPlayers) : CloseMusicPlayer(musicPlayers[i].id)
     /\ \A i \in 1..Len(musicPlayers) :
          CloseMusicPlayer(musicPlayers[i].id) =>
            musicPlayers' = WithoutPlayer(musicPlayers, i)]_vars

\* C24 happens: one of two players was dismissed and the other is still there.
C24_Witness == lastOp = "CloseMusicPlayer" /\ Len(musicPlayers) = 1

\* C25: what the completing step of a turn does with a music request that asks
\* to play: nothing when it has neither a video id nor a query; a player for
\* the video id as given, and no search, when it has one; a search, and no
\* player yet, only when it has a query and no video id.
ResolvedAs(musicRequest) ==
  IF musicRequest.searchQuery = NoText /\ musicRequest.youtubeVideoId = NoText
  THEN musicCalls' = musicCalls /\ musicPlayers' = musicPlayers
  ELSE IF musicRequest.youtubeVideoId # NoText
  THEN /\ musicCalls' = musicCalls
       /\ Len(musicPlayers') = Len(musicPlayers) + 1
       /\ IsPrefix(musicPlayers, musicPlayers')
       /\ musicPlayers'[Len(musicPlayers')].videoId = musicRequest.youtubeVideoId
  ELSE /\ musicPlayers' = musicPlayers
       /\ \E c \in musicCalls' :
            /\ c \notin musicCalls
            /\ musicCalls' = musicCalls \cup {c}
            /\ c.query = musicRequest.searchQuery

AsksToPlay(aiResponse) ==
  aiResponse.musicRequest.present /\ aiResponse.musicRequest.shouldPlay

C25_ResolveByIdOrQuery ==
  [][/\ \A t \in turns, o \in ResolveAi :
          (t.safetyDone /\ AiSettles(t, o, TRUE) /\ AsksToPlay(AiResponseOf(t, o, TRUE)))
            => ResolvedAs(AiResponseOf(t, o, TRUE).musicRequest)
     /\ \A t \in turns :
          (t.aiDone /\ SafetySettles(t) /\ AsksToPlay(t.ai)) => ResolvedAs(t.ai.musicRequest)]_vars

\* C25 happens: a request with a query and a video id got its player for that
\* video while no search is under way.
C25_Witness ==
  /\ lastOp \in {"AiSettles", "SafetySettles"}
  /\ musicCalls = {}
  /\ \E i \in 1..Len(musicPlayers) :
       musicPlayers[i].videoId = VideoId /\ musicPlayers[i].title = Title2

\* C26: the safety level of every response the route returns is safe, caution
\* or crisis: caution and crisis are kept as parsed, anything else becomes safe.
ReturnedBy(t, o) == handler(AiRequest(t), o.search, o.llm)

C26_SafetyLevelCoerced ==
  /\ [](\A t \in turns : t.aiDone => t.ai.safetyLevel \in SafetyLevels)
  /\ [][\A t \in turns, o \in HandlerAi :
          (AiSettles(t, o, TRUE) /\ o.llm.kind = "json") =>
            LET parsedLevel == o.llm.parsed.safetyLevel IN
            /\ ReturnedBy(t, o).status = 200
            /\ ReturnedBy(t, o).body.safetyLevel \in SafetyLevels
            /\ ReturnedBy(t, o).body.safetyLevel =
                 IF parsedLevel \in {Caution, Crisis} THEN parsedLevel ELSE Safe
            /\ AiResponseOf(t, o, TRUE).safetyLevel = ReturnedBy(t, o).body.safetyLevel]_vars

\* C26 happens: a reply whose level was written "CRISIS" has been returned to
\* the page as safe.
C26_Witness ==
  \E t \in turns : t.aiDone /\ t.ai.message = TxtShout /\ t.ai.safetyLevel = Safe

\* C27: every micro-action of a returned response has an id: the one it came
\* with, or llm-(i+1) at 0-based position i; the ids of one response differ
\* from each other.
C27_MicroActionsAddressable ==
  [][\A t \in turns, o \in HandlerAi :
       (AiSettles(t, o, TRUE) /\ o.llm.kind = "json" /\ o.llm.parsed.microActions.present) =>
         LET given == o.llm.parsed.microActions.list
             returned == ReturnedBy(t, o).body.microActions.list
         IN /\ Len(returned) = Len(given)
            /\ \A i \in 1..Len(returned) :
                 /\ returned[i].id # NoText
                 /\ returned[i].id = IF given[i].id # NoText THEN given[i].id ELSE LlmId(i - 1)
            /\ \A i, k \in 1..Len(returned) : i # k => returned[i].id # returned[k].id]_vars

\* C30: a reference lookup that fails or throws leaves the references empty
\* and the turn goes on: the model request is sent, a reply of the model is
\* returned with status 200, and no response carries more than three
\* references.
C30_LookupFailureDegrades ==
  /\ [](\A i \in 1..Len(messages) : Len(messages[i].references) <= MAX_REFERENCES)
  /\ [][\A t \in turns, o \in HandlerAi :
          AiSettles(t, o, TRUE) =>
            /\ ReturnedBy(t, o).sent
            /\ Len(ReturnedBy(t, o).body.references) <= MAX_REFERENCES
            /\ (o.search.kind # "ok" /\ o.llm.kind = "json") =>
                 /\ ReturnedBy(t, o).status = 200
                 /\ ReturnedBy(t, o).body.references = << >>
                 /\ ReturnedBy(t, o).body.message = o.llm.parsed.message
            /\ (o.search.kind = "ok" /\ o.llm.kind = "json") =>
                 ReturnedBy(t, o).body.references =
                   SubSeq(o.search.results, 1,
                          IF Len(o.search.results) < MAX_REFERENCES
                          THEN Len(o.search.results) ELSE MAX_REFERENCES)]_vars

\* C30 happens: a turn whose lookup failed has completed with the model's reply
\* and no references, and another turn's reply carries three.
C30_Witness ==
  /\ sessionState = "idle"
  /\ \E i \in 1..Len(messages) :
       /\ messages[i].role = "assistant"
       /\ messages[i].content = NoRefsText
       /\ messages[i].references = << >>
  /\ \E i \in 1..Len(messages) : Len(messages[i].references) = MAX_REFERENCES

\* C28: a start-recording request that ends without a started recorder reports
\* an error and leaves the state idle with no recorder running; the state
\* becomes recording only in a step that starts a recorder.
StartFailsAtOnce ==
  lastOp' = "StartRecording" /\ micCalls' = micCalls /\ recorders' = recorders
StartFailsAfterRequest ==
  \E c \in micCalls :
    /\ c.caller = "start"
    /\ lastOp' = "MicSettles"
    /\ micCalls' = micCalls \ {c}
    /\ recorders' = recorders

C28_FailedStartLeavesIdle ==
  [][/\ (StartFailsAtOnce \/ StartFailsAfterRequest) =>
          /\ micError' # NoError
          /\ sessionState' = "idle"
          /\ recorders' = {}
     /\ (sessionState' = "recording" /\ sessionState # "recording") =>
          /\ recorders' # recorders
          /\ mediaRecorderRef' \in recorders']_vars

\* C29: a device request that fails with OverconstrainedError is made once more
\* with default constraints and surfaces no error yet; any other failure, and a
\* failure of the second request, ends the acquisition with its error shown.
C29_OneRetryOnConstraints ==
  /\ [](\A c \in micCalls : c.stage \in {1, 2})
  /\ [][\A c \in micCalls, out \in AcquireOutcomes, rec \in RecorderOutcomes :
          MicSettles(c, out, rec) =>
            IF c.stage = 1 /\ out = "OverconstrainedError"
            THEN /\ micCalls' = (micCalls \ {c}) \cup {[c EXCEPT !.stage = 2]}
                 /\ micError' = micError
                 /\ nMicCalls' = nMicCalls
            ELSE /\ micCalls' = micCalls \ {c}
                 /\ out # "granted" =>
                      /\ micError' # NoError
                      /\ micError' = IF c.stage = 2 THEN "defaultFailed" ELSE MicErrorOf(out)
                      /\ streamRef' = streamRef]_vars

\* C29 happens: the request repeated with default constraints failed too, and
\* its error is shown.
C29_Witness ==
  lastOp = "MicSettles" /\ micError = "defaultFailed" /\ micCalls = {}

\* C31: a text turn starts with the classification and the AI request both
\* outstanding; the result that arrives first changes neither the displayed
\* level, the banner nor the messages, and the one that arrives second sets the
\* level and appends the assistant message, whichever of the two it is.
FirstResultOnly ==
  UNCHANGED <<safetyLevel, showSafetyBanner, messages, sessionState, currentMicroActions>>
BothResultsIn(t) ==
  /\ safetyLevel' = detectSafetyLevel(t.text)
  /\ AssistantMessageAppended
  /\ t \notin turns'

C31_WaitsForBothResults ==
  [][/\ \A t \in turns' \ turns :
          (t.kind = "typed" /\ t.pc = "awaiting" /\ lastOp' = "SubmitTypedMessage")
            => (~t.aiDone /\ ~t.safetyDone)
     /\ \A t \in turns, o \in VoiceAi :
          (t.kind # "micro" /\ AiSettles(t, o, TRUE)) =>
            IF t.safetyDone THEN BothResultsIn(t) ELSE FirstResultOnly
     /\ \A t \in turns :
          SafetySettles(t) => IF t.aiDone THEN BothResultsIn(t) ELSE FirstResultOnly]_vars

\* C31 happens: the reply to a crisis text is in, the classification is not, and
\* the page still shows what it showed before the turn.
C31_Witness ==
  \E t \in turns :
    /\ t.aiDone /\ ~t.safetyDone
    /\ detectSafetyLevel(t.text) = Crisis
    /\ safetyLevel = Safe
    /\ messages[Len(messages)].role = "user"

\* C32: a synthesis request that fails (non-success status, or fetch throwing)
\* starts no playback and changes nothing of the session, and the turn that
\* asked for the speech is back at idle without waiting for the request.
SynthesisFailures == {"status", "rejected"}

C32_SynthesisFailureIsSilent ==
  [][/\ \A a \in ttsCalls, out \in SynthesisFailures :
          TtsSettles(a, out) =>
            UNCHANGED <<currentAudio, playing, rejecting, sessionState, messages,
                        safetyLevel, showSafetyBanner, currentMicroActions, turns>>
     /\ \A t \in turns :
          (t.pc = "awaiting" /\ \A u \in turns' : u.id # t.id) =>
            /\ sessionState' = "idle"
            /\ Trim(messages'[Len(messages')].content) # NoText => t.id \in ttsCalls']_vars

C32_Witness ==
  /\ lastOp = "TtsSettles"
  /\ playing = {} /\ rejecting = {} /\ currentAudio = NoAudio /\ ttsCalls = {}
  /\ sessionState = "idle"
  /\ messages # << >> /\ messages[Len(messages)].content = ReplyText

\* C33: speaking a reply that is empty or only whitespace sends no synthesis
\* request and leaves the playback state as it is, a running playback included.
C33_BlankSpeechIsNoOp ==
  [][(AssistantMessageAppended /\ Trim(messages'[Len(messages')].content) = NoText)
       => UNCHANGED <<ttsCalls, currentAudio, playing, rejecting>>]_vars

C33_Witness ==
  /\ lastOp \in {"AiSettles", "SafetySettles"}
  /\ messages # << >>
  /\ messages[Len(messages)].role = "assistant"
  /\ messages[Len(messages)].content = TxtBlank
  /\ currentAudio # NoAudio /\ currentAudio \in playing

\* C38: the ended, error or play-rejection event of an Audio element clears
\* currentAudio only when it still refers to that element.
C38_EventClearsOwnReferenceOnly ==
  [][\A a \in playing \cup rejecting :
       (AudioEnds(a) \/ PlayRejected(a)) =>
         currentAudio' = IF currentAudio = a THEN NoAudio ELSE currentAudio]_vars

C38_Witness ==
  /\ lastOp \in {"AudioEnds", "PlayRejected"}
  /\ currentAudio # NoAudio

\* C34: the step that completes a user-text turn leaves a displayed level at
\* least as strict as detectSafetyLevel of the turn's text, and sets the banner
\* flag when that level is not safe, whatever level the reply carries.
TurnCompletes(t) == t.pc = "awaiting" /\ \A u \in turns' : u.id # t.id

C34_ClassifierLevelGoverns ==
  [][\A t \in turns :
       (t.kind # "micro" /\ TurnCompletes(t)) =>
         /\ Rank(safetyLevel') >= Rank(detectSafetyLevel(t.text))
         /\ detectSafetyLevel(t.text) # Safe => showSafetyBanner']_vars

C34_Witness ==
  /\ lastOp \in {"AiSettles", "SafetySettles"}
  /\ Len(messages) = 2
  /\ messages[1].content = TxtCrisis
  /\ messages[2].content = AiFallbackText
  /\ safetyLevel = Crisis /\ showSafetyBanner

\* C40: the banner is visible exactly when the flag is set and the level is not
\* safe; dismissing hides it; it becomes visible only in a step that completes a
\* turn yielding a non-safe level (the classifier's for a text turn, the reply's
\* for a micro-action turn), and every such step leaves it visible; a
\* micro-action turn never lowers the level.
C40_BannerShownAgain ==
  [][/\ DismissSafetyBanner => ~SafetyBannerVisible'
     /\ (~SafetyBannerVisible /\ SafetyBannerVisible') =>
          \E t \in turns : TurnCompletes(t) /\ safetyLevel' # Safe
     /\ \A t \in turns :
          (t.kind # "micro" /\ TurnCompletes(t) /\ detectSafetyLevel(t.text) # Safe)
            => SafetyBannerVisible'
     /\ \A t \in turns, o \in BannerAi :
          (t.kind = "micro" /\ AiSettles(t, o, TRUE)
             /\ AiResponseOf(t, o, TRUE).safetyLevel # Safe) => SafetyBannerVisible']_vars

C40_MicroActionNeverLowers ==
  [][\A t \in turns :
       (t.kind = "micro" /\ TurnCompletes(t)) => Rank(safetyLevel') >= Rank(safetyLevel)]_vars

C40_BannerFollowsLevel ==
  /\ [](SafetyBannerVisible <=> (showSafetyBanner /\ safetyLevel # Safe))
  /\ C40_BannerShownAgain
  /\ C40_MicroActionNeverLowers

\* C35: a stop-recording request made while the state is recording and a
\* recorder is referenced stops that recorder, moves the state to processing and
\* starts exactly one transcription of its audio; made in any other state it
\* changes nothing.
C35_StopOnlyWhileRecording ==
  [][handleStopRecording =>
       IF sessionState = "recording" /\ mediaRecorderRef # NoRecorder
       THEN /\ mediaRecorderRef \in recorders
            /\ recorders' = recorders \ {mediaRecorderRef}
            /\ sessionState' = "processing"
            /\ turns \subseteq turns'
            /\ turns' \ turns = {Turn(mediaRecorderRef, "voice", "transcribing", NoText)}
            /\ UNCHANGED <<messages, mediaRecorderRef, mic, voice>>
       ELSE UNCHANGED <<mounted, browser, mountTimer, session, mic, recording, turns, voice,
                        musicCalls, logStore, nStarted>>]_vars

C35_Witness ==
  /\ lastOp = "StopRecording"
  /\ sessionState = "processing"
  /\ mediaRecorderRef # NoRecorder /\ mediaRecorderRef \notin recorders
  /\ \E t \in turns : t.id = mediaRecorderRef /\ t.pc = "transcribing"

\* C36: in every reachable state with sessionState recording no Audio element
\* is playing.
C36_NoPlaybackWhileRecording == sessionState = "recording" => playing = {}

\* C37: in every reachable state a recorder is capturing only while
\* sessionState is recording, at most one is capturing, and the one capturing
\* is the one mediaRecorderRef refers to.
C37_OneReferencedRecorder ==
  /\ recorders # {} => sessionState = "recording"
  /\ Cardinality(recorders) <= 1
  /\ recorders \subseteq {mediaRecorderRef}

\* C39: a turn whose model call fails (non-success status, empty content,
\* unparseable content, or a thrown error) is served the fallback and leaves the
\* log as it was; the log grows only in a step in which the route answered 200,
\* and by then the record is in the file, whatever becomes of the answer.
FailedModelCalls == {o \in LogAi : o.llm.kind \in LlmFailureKinds}

====
